---- MODULE Spec2Model ----
(***************************************************************************)
(* The state pattern of patterns.state: the StateRegistry decorators       *)
(* (api.py), the StateRegistryResolver (_resolver.py), the AddState binder *)
(* (_add.py) and the wrappers it generates on the host class               *)
(* (_code_gen.py), followed by the life of one host instance.              *)
(***************************************************************************)
EXTENDS Integers, Sequences, FiniteSets, TLC

\* ------------------------------------------------------------------------
\* The python module the registry is used in: three state classes,
\* class A, class B(A), class C(B), and one host class.
\* ------------------------------------------------------------------------

Classes == {"A", "B", "C"}

\* The state classes of the module of tests/state_pattern/test_basic.py.
ArticleClasses == {"Demanded", "Ordered", "InStock", "OnDispatch", "Sold"}

\* cls.mro() without object, the class itself first.
Mro(c) ==
    CASE c = "A" -> <<"A">>
      [] c = "B" -> <<"B", "A">>
      [] c = "C" -> <<"C", "B", "A">>
      [] c \in {"Demanded", "Ordered", "InStock"} -> <<c, "ArticleState">>
      [] c \in {"OnDispatch", "Sold"} -> <<c, "SoldStateMixin", "ArticleState">>
      [] OTHER -> <<>>

\* The names resolve_type finds a class for in the module of a state class.
Defined == Classes \cup ArticleClasses

\* What a transition callable of a state class can hand back: an instance
\* of any class of the module, or None.
ObjClasses == Classes \cup {"NoneType"}

HostCls == "Host"

\* The names the body of the host class can define itself (or its bases
\* hand down to it) before add_state decorates it: none, a member of the
\* name of a transition, or a member called state.
HostBodies == {{}, {"t"}, {"state"}}

\* What to=... of a transition can name: a class of the module, or (as a
\* string) a name the module does not define.
Destinations == Classes \cup {"Missing"}

\* The functions and annotated attributes the class bodies hold: the only
\* places a decorator (or an attributes=[...] entry) can name. The function
\* m of class B can be decorated as a method and as a property.
ClassAttributes == {<<"A", "a">>, <<"C", "a">>}
ClassMethods == {<<"A", "m">>, <<"B", "m">>}
ClassProperties == {<<"B", "p">>, <<"B", "m">>}
ClassTransitions == {<<"A", "t">>, <<"B", "t">>, <<"C", "t">>}

AttrNames == {x[2] : x \in ClassAttributes}
MethodNames == {x[2] : x \in ClassMethods}
PropNames == {x[2] : x \in ClassProperties}
TransNames == {x[2] : x \in ClassTransitions}
MemberNames == AttrNames \cup MethodNames \cup PropNames \cup TransNames

\* Other StateRegistry objects of the module, each holding a machine that
\* resolves: class A alone with its attribute a, and class B alone with its
\* property p.
OtherRegistries ==
    {[registry |-> [c \in {"A"} |-> [initial |-> TRUE, abstract |-> FALSE,
                                     attributes |-> {"a"}]],
      member_registry |-> [c \in {} |-> 0]],
     [registry |-> [c \in {"B"} |-> [initial |-> TRUE, abstract |-> FALSE,
                                     attributes |-> {}]],
      member_registry |-> [c \in {"B"} |-> [properties |-> {"p"}, methods |-> {},
                                            transitions |-> [x \in {} |-> 0]]]]}

\* Bounds of the model: the decorators applied in the module (to distinct
\* classes and functions), and the state objects created.
MaxDecorators == 3
MaxInstances == 2

\* The constructions of singleton classes in a run.
MaxConstructions == 4

\* ------------------------------------------------------------------------
\* Helpers on finite maps (python dicts).
\* ------------------------------------------------------------------------

EmptyMap == [x \in {} |-> 0]

Put(f, k, v) == [x \in DOMAIN f \cup {k} |-> IF x = k THEN v ELSE f[x]]

\* {**other, **self}
Merge(other, self) ==
    [x \in DOMAIN other \cup DOMAIN self |->
        IF x \in DOMAIN self THEN self[x] ELSE other[x]]

Range(s) == {s[i] : i \in DOMAIN s}

Reverse(s) == [i \in 1..Len(s) |-> s[Len(s) + 1 - i]]

\* All orders a python set of the given elements can be iterated in.
Orders(S) ==
    {s \in [1..Cardinality(S) -> S] : \A i, j \in 1..Cardinality(S) : i # j => s[i] # s[j]}

\* A set as a sequence, in one fixed order (the order python iterates a dict
\* in does not change what the code below computes from it).
RECURSIVE SetToSeq(_)
SetToSeq(S) ==
    IF S = {} THEN <<>>
    ELSE LET x == CHOOSE y \in S : TRUE
         IN <<x>> \o SetToSeq(S \ {x})

\* ------------------------------------------------------------------------
\* _structs.py
\* ------------------------------------------------------------------------

\* MemberStateItem() with its three empty dicts.
NewMemberStateItem == [properties |-> {}, methods |-> {}, transitions |-> EmptyMap]

\* StateItem.members: the names, attributes first, then properties, methods
\* and transitions, each with the kind of member it is.
Members(item) ==
    [i \in 1..Len(SetToSeq(DOMAIN item.attributes)) |->
        [name |-> SetToSeq(DOMAIN item.attributes)[i], kind |-> "attribute"]]
    \o [i \in 1..Len(SetToSeq(DOMAIN item.properties)) |->
        [name |-> SetToSeq(DOMAIN item.properties)[i], kind |-> "property"]]
    \o [i \in 1..Len(SetToSeq(DOMAIN item.methods)) |->
        [name |-> SetToSeq(DOMAIN item.methods)[i], kind |-> "method"]]
    \o [i \in 1..Len(SetToSeq(DOMAIN item.transitions)) |->
        [name |-> SetToSeq(DOMAIN item.transitions)[i], kind |-> "transition"]]

MemberNamesOf(item) ==
    DOMAIN item.attributes \cup DOMAIN item.properties
        \cup DOMAIN item.methods \cup DOMAIN item.transitions

\* StateItem.inherit_from_state: the maps of other, overwritten by self's.
InheritFromState(self, other) ==
    [self EXCEPT !.attributes = Merge(other.attributes, @),
                 !.methods = Merge(other.methods, @),
                 !.properties = Merge(other.properties, @),
                 !.transitions = Merge(other.transitions, @)]

\* ------------------------------------------------------------------------
\* _resolver.py: StateRegistryResolver
\* ------------------------------------------------------------------------

\* A faulty match_member_and_class_states: a key of the member registry only
\* gets abstract=False.
MatchItemConcrete(reg, mreg, c) ==
    [cls |-> c,
     initial |-> IF c \in DOMAIN reg THEN reg[c].initial ELSE FALSE,
     abstract |-> IF c \in DOMAIN reg THEN reg[c].abstract ELSE FALSE,
     attributes |-> IF c \in DOMAIN reg
                    THEN [n \in reg[c].attributes |-> c] ELSE EmptyMap,
     properties |-> IF c \in DOMAIN mreg
                    THEN [n \in mreg[c].properties |-> c] ELSE EmptyMap,
     methods |-> IF c \in DOMAIN mreg
                 THEN [n \in mreg[c].methods |-> c] ELSE EmptyMap,
     transitions |-> IF c \in DOMAIN mreg
                     THEN [n \in DOMAIN mreg[c].transitions |->
                              [owner |-> c, to |-> mreg[c].transitions[n]]]
                     ELSE EmptyMap]

\* The StateItem match_member_and_class_states builds for registry key c. A
\* member is recorded with the class whose body declares it.
MatchItem(reg, mreg, c) ==
    [cls |-> c,
     initial |-> IF c \in DOMAIN reg THEN reg[c].initial ELSE FALSE,
     abstract |-> IF c \in DOMAIN reg THEN reg[c].abstract ELSE TRUE,
     attributes |-> IF c \in DOMAIN reg
                    THEN [n \in reg[c].attributes |-> c] ELSE EmptyMap,
     properties |-> IF c \in DOMAIN mreg
                    THEN [n \in mreg[c].properties |-> c] ELSE EmptyMap,
     methods |-> IF c \in DOMAIN mreg
                 THEN [n \in mreg[c].methods |-> c] ELSE EmptyMap,
     transitions |-> IF c \in DOMAIN mreg
                     THEN [n \in DOMAIN mreg[c].transitions |->
                              [owner |-> c, to |-> mreg[c].transitions[n]]]
                     ELSE EmptyMap]

\* The orders match_member_and_class_states can list the keys in: the common
\* keys, then the keys of the class registry only, then those of the member
\* registry only, each group in the order of a python set.
MatchOrders(reg, mreg) ==
    {a \o b \o c : a \in Orders(DOMAIN reg \cap DOMAIN mreg),
                   b \in Orders(DOMAIN reg \ DOMAIN mreg),
                   c \in Orders(DOMAIN mreg \ DOMAIN reg)}

MatchMemberAndClassStates(reg, mreg, order) ==
    [i \in 1..Len(order) |-> MatchItem(reg, mreg, order[i])]

\* The inner loop of resolve_item_inheritance over all_bases[k..].
RECURSIVE InheritBases(_, _, _, _)
InheritBases(bases, k, item, acc) ==
    IF k > Len(bases) THEN acc
    ELSE IF bases[k] \notin DOMAIN acc.by_cls \/ bases[k] \in acc.resolved
         THEN InheritBases(bases, k + 1, item, acc)
         ELSE LET merged == InheritFromState(item, acc.by_cls[bases[k]])
              IN InheritBases(bases, k + 1, merged,
                              [by_cls |-> Put(acc.by_cls, merged.cls, merged),
                               resolved |-> acc.resolved \cup {merged.cls}])

\* The outer loop of resolve_item_inheritance over matched_state_items[i..].
RECURSIVE InheritItems(_, _, _)
InheritItems(matched, i, acc) ==
    IF i > Len(matched) THEN acc
    ELSE InheritItems(matched, i + 1,
                      InheritBases(Reverse(Mro(matched[i].cls)), 1, matched[i], acc))

ResolveItemInheritance(matched) ==
    LET start == [by_cls |-> [c \in {matched[i].cls : i \in DOMAIN matched} |->
                                 LET i == CHOOSE j \in DOMAIN matched : matched[j].cls = c
                                 IN matched[i]],
                  resolved |-> {}]
        done == InheritItems(matched, 1, start)
    IN [i \in 1..Len(matched) |-> done.by_cls[matched[i].cls]]

\* validate_state_definitions raises
AbstractWithoutMembers(items) ==
    \E i \in DOMAIN items : items[i].abstract /\ MemberNamesOf(items[i]) = {}

Initials(items) == {i \in DOMAIN items : items[i].initial}

\* validate_initial raises for the number of initial items or for an
\* abstract one
InvalidInitial(items) ==
    \/ Cardinality(Initials(items)) # 1
    \/ \E i \in Initials(items) : items[i].abstract

\* len(inspect.signature(cls.__init__).parameters), self included; 1 for a
\* class whose __init__ is object.__init__.
InitParameters(c) ==
    CASE c = "Ordered" -> 2
      [] c = "InStock" -> 3
      [] c = "OnDispatch" -> 4
      [] c = "Sold" -> 3
      [] OTHER -> 1

\* validate_initial finds that the __init__ of the initial state has more
\* parameters than self: it calls breakpoint(), then raises.
InitialTakesArguments(items) ==
    \E i \in Initials(items) : InitParameters(items[i].cls) > 1

\* How a run of the resolver that ended as `outcome` ends for its caller.
\* breakpoint() starts the debugger on the process's standard input: at its
\* end, or on the command q, the debugger raises BdbQuit; on the command c,
\* or with PYTHONBREAKPOINT=0, the raise statement after it runs.
Ends(outcome) ==
    IF outcome = "breakpoint" THEN {"BdbQuit", "StateConfigError"} ELSE {outcome}

\* A faulty resolve: the concretes in the order of the resolved items, the
\* initial state not moved to the front.
ConcretesAsResolved(items) == SelectSeq(items, LAMBDA it : ~it.abstract)

\* concretes, the initial state first
Concretes(items) ==
    LET init == CHOOSE i \in Initials(items) : TRUE
        rest == SelectSeq(items, LAMBDA it : ~it.abstract /\ it.cls # items[init].cls)
    IN <<items[init]>> \o rest

\* A faulty traversal: only the destinations of transitions are added to
\* reachable_state_classes, never the dequeued state itself.
RECURSIVE TraverseOnlyDestinations(_, _, _, _)
TraverseOnlyDestinations(queue, reachable, by_cls, dequeued) ==
    IF queue = <<>>
    THEN [error |-> "-", reachable |-> reachable, dequeued |-> dequeued]
    ELSE LET item == by_cls[Head(queue)]
             names == SetToSeq(DOMAIN item.transitions)
             dests == [i \in 1..Len(names) |-> item.transitions[names[i]].to]
         IN IF \E i \in DOMAIN dests : dests[i] \notin DOMAIN by_cls
            THEN [error |-> "KeyError", reachable |-> reachable, dequeued |-> dequeued + 1]
            ELSE TraverseOnlyDestinations(
                     Tail(queue) \o SelectSeq(dests, LAMBDA d : d \notin reachable),
                     reachable \cup Range(dests), by_cls, dequeued + 1)

\* A faulty traversal: a destination that is no concrete state is skipped
\* (state_items_by_cls.get) instead of looked up.
RECURSIVE TraverseSkippingUnknown(_, _, _, _)
TraverseSkippingUnknown(queue, reachable, by_cls, dequeued) ==
    IF queue = <<>>
    THEN [error |-> "-", reachable |-> reachable, dequeued |-> dequeued]
    ELSE LET item == by_cls[Head(queue)]
             reached == reachable \cup {item.cls}
             names == SetToSeq(DOMAIN item.transitions)
             dests == [i \in 1..Len(names) |-> item.transitions[names[i]].to]
         IN TraverseSkippingUnknown(
                Tail(queue) \o SelectSeq(dests, LAMBDA d : d \in DOMAIN by_cls
                                                           /\ d \notin reached),
                reached, by_cls, dequeued + 1)

\* The while loop of validate_state_transition_map: the queue, the classes
\* reached so far and the number of items dequeued so far.
RECURSIVE Traverse(_, _, _, _)
Traverse(queue, reachable, by_cls, dequeued) ==
    IF queue = <<>>
    THEN [error |-> "-", reachable |-> reachable, dequeued |-> dequeued]
    ELSE LET item == by_cls[Head(queue)]
             reached == reachable \cup {item.cls}
             names == SetToSeq(DOMAIN item.transitions)
             dests == [i \in 1..Len(names) |-> item.transitions[names[i]].to]
         IN IF \E i \in DOMAIN dests : dests[i] \notin DOMAIN by_cls
            THEN [error |-> "KeyError", reachable |-> reached, dequeued |-> dequeued + 1]
            ELSE Traverse(Tail(queue) \o SelectSeq(dests, LAMBDA d : d \notin reached),
                          reached, by_cls, dequeued + 1)

ValidateStateTransitionMap(initial, concretes) ==
    LET by_cls == [c \in {concretes[i].cls : i \in DOMAIN concretes} |->
                      LET i == CHOOSE j \in DOMAIN concretes : concretes[j].cls = c
                      IN concretes[i]]
        run == Traverse(<<initial>>, {}, by_cls, 0)
    IN IF run.error # "-" THEN run.error
       ELSE IF DOMAIN by_cls \ run.reachable # {} THEN "StateConfigError"
       ELSE "ok"

NoDefinition == [initial |-> "-", concretes |-> <<>>]

\* get_transitions raises: resolve_type finds no class of the name a
\* transition of the member registry gives as its destination.
UnresolvedDestination(mreg) ==
    \E c \in DOMAIN mreg : \E n \in DOMAIN mreg[c].transitions :
        mreg[c].transitions[n] \notin Defined

\* StateRegistryResolver.resolve: how it ends, the resolved state items (as
\* far as it got) and, when it returns, the StateDefinition.
Resolve(reg, mreg, order) ==
    IF UnresolvedDestination(mreg)
    THEN [outcome |-> "KeyError", items |-> <<>>, definition |-> NoDefinition]
    ELSE LET matched == MatchMemberAndClassStates(reg, mreg, order)
             items == ResolveItemInheritance(matched)
         IN IF AbstractWithoutMembers(items) \/ InvalidInitial(items)
            THEN [outcome |-> "StateConfigError", items |-> items,
                  definition |-> NoDefinition]
            ELSE IF InitialTakesArguments(items)
            THEN [outcome |-> "breakpoint", items |-> items, definition |-> NoDefinition]
            ELSE LET initial == items[CHOOSE i \in Initials(items) : TRUE].cls
                     concretes == Concretes(items)
                     end == ValidateStateTransitionMap(initial, concretes)
                 IN IF end # "ok"
                    THEN [outcome |-> end, items |-> items, definition |-> NoDefinition]
                    ELSE [outcome |-> "ok", items |-> items,
                          definition |-> [initial |-> initial,
                                          concretes |-> concretes]]

\* ------------------------------------------------------------------------
\* _add.py: AddState
\* ------------------------------------------------------------------------

HostMember(kind, cls) == [kind |-> kind, cls |-> cls]

\* The attributes of the host class as its body defines them, and of the
\* attributes hm of the host class those a setattr of the binder put there.
HostBody(own) == [n \in own |-> HostMember("own", "-")]
SetByBinder(hm) == [n \in {k \in DOMAIN hm : hm[k].kind # "own"} |-> hm[n]]

\* A faulty create_wrapped_state_init: the wrapped __init__ instantiates the
\* last concrete state of the definition instead of the initial one.
DefaultStateClsLast(definition) ==
    definition.concretes[Len(definition.concretes)].cls

\* create_wrapped_state_init: the class the wrapped __init__ instantiates
DefaultStateCls(definition) == definition.initial

\* _add_state_property: the state property and the wrapped __init__
AddStateProperty(definition, hm) ==
    Put(Put(hm, "state", HostMember("state_property", "-")),
        "__init__", HostMember("init", DefaultStateCls(definition)))

\* The loop of _add_state_members over the members ms[k..] of one concrete
\* state. acc: the host class's attributes, the names added by earlier
\* states, the member set of this state so far and how the loop ended.
RECURSIVE AddMembersOf(_, _, _)
AddMembersOf(ms, k, acc) ==
    IF k > Len(ms) \/ acc.outcome # "ok" THEN acc
    ELSE IF ms[k].name \notin DOMAIN acc.host_members \/ ms[k].name \in acc.added
         THEN AddMembersOf(ms, k + 1,
                  [acc EXCEPT !.host_members = Put(@, ms[k].name, HostMember(ms[k].kind, "-")),
                              !.set = @ \cup {ms[k].name}])
         ELSE [acc EXCEPT !.outcome = "StateConfigError"]

\* A faulty _add_state_members: state_cls_member_set is created once, before
\* the loop over the concrete states, so each state's set also holds the
\* names of the states before it.
RECURSIVE AddStateMembersShared(_, _, _)
AddStateMembersShared(concretes, i, acc) ==
    IF i > Len(concretes) \/ acc.outcome # "ok" THEN acc
    ELSE LET one == AddMembersOf(Members(concretes[i]), 1, acc)
         IN IF one.outcome # "ok" THEN one
            ELSE AddStateMembersShared(concretes, i + 1,
                     [one EXCEPT !.added = @ \cup one.set,
                                 !.member_sets = Put(@, concretes[i].cls, one.set)])

\* The loop of _add_state_members over the concrete states concretes[i..].
RECURSIVE AddStateMembers(_, _, _)
AddStateMembers(concretes, i, acc) ==
    IF i > Len(concretes) \/ acc.outcome # "ok" THEN acc
    ELSE LET one == AddMembersOf(Members(concretes[i]), 1, [acc EXCEPT !.set = {}])
         IN IF one.outcome # "ok" THEN one
            ELSE AddStateMembers(concretes, i + 1,
                     [one EXCEPT !.added = @ \cup one.set,
                                 !.member_sets = Put(@, concretes[i].cls, one.set)])

\* The decorator of AddState.add_state_to: the state property, then the
\* members.
AddStateTo(definition, hm, ms) ==
    AddStateMembers(definition.concretes, 1,
        [host_members |-> AddStateProperty(definition, hm), member_sets |-> ms,
         added |-> {}, set |-> {}, outcome |-> "ok"])

\* A faulty add_state_to: the check of _cls_to_state is left out.
AlreadyAddedNever(cts) == FALSE

\* add_state_to raises: cls in AddState._cls_to_state
AlreadyAdded(cts) == cts # NoDefinition

\* ------------------------------------------------------------------------
\* _code_gen.py: the wrappers set on the host class
\* ------------------------------------------------------------------------

NoMsg == [host |-> "-", state |-> "-", member |-> "-"]
NoValue == [obj |-> 0, name |-> "-"]

\* A faulty err_msg: self.__class__.__name__ where the class of self._state
\* belongs.
ErrMsgHostTwice(host_cls, state_cls, name) ==
    [host |-> host_cls, state |-> host_cls, member |-> name]

\* err_msg of _get_body_lines: self.__class__.__name__,
\* self._state.__class__.__name__ and the member's name
ErrMsg(host_cls, state_cls, name) == [host |-> host_cls, state |-> state_cls, member |-> name]

\* The class python finds the member set on for an object of class cls: the
\* first class of its mro the binder stored one on, "-" when there is none.
MemberSetOwner(ms, cls) ==
    LET owners == SelectSeq(Mro(cls), LAMBDA c : c \in DOMAIN ms)
    IN IF owners = <<>> THEN "-" ELSE owners[1]

\* The first lines of every wrapper (_get_body_lines): how the check of
\* name against the member set of the held object obj ends.
CheckMember(ms, hp, obj, name) ==
    IF MemberSetOwner(ms, hp[obj]) = "-" THEN "AttributeError"
    ELSE IF name \notin ms[MemberSetOwner(ms, hp[obj])] THEN "StateError"
    ELSE "ok"

\* A faulty wrapper: before it raises, it puts the host back on the first
\* state object.
RaisedResets(outcome, name, hp, obj) ==
    [outcome |-> outcome,
     msg |-> IF outcome = "StateError" THEN ErrMsg(HostCls, hp[obj], name) ELSE NoMsg,
     returned |-> "-", value |-> NoValue, host_state |-> 1, heap |-> hp,
     invoked |-> "-"]

\* A wrapper raising: nothing is returned, self._state is left alone.
Raised(outcome, name, hp, obj) ==
    [outcome |-> outcome,
     msg |-> IF outcome = "StateError" THEN ErrMsg(HostCls, hp[obj], name) ELSE NoMsg,
     returned |-> "-", value |-> NoValue, host_state |-> obj, heap |-> hp,
     invoked |-> "-"]

\* A faulty method wrapper, generated with the return lines of a
\* transition: the result of the call (None) becomes self._state.
MemberWrapperSwaps(ms, hp, obj, name) ==
    IF CheckMember(ms, hp, obj, name) # "ok"
    THEN Raised(CheckMember(ms, hp, obj, name), name, hp, obj)
    ELSE [outcome |-> "ok", msg |-> NoMsg, returned |-> "None", value |-> NoValue,
          host_state |-> Len(hp) + 1, heap |-> Append(hp, "NoneType"), invoked |-> "-"]

\* The wrapper of an attribute, a property or a method: the check, then
\* return self._state.<name> (for a method: called with the arguments).
MemberWrapper(ms, hp, obj, name) ==
    IF CheckMember(ms, hp, obj, name) # "ok"
    THEN Raised(CheckMember(ms, hp, obj, name), name, hp, obj)
    ELSE [outcome |-> "ok", msg |-> NoMsg, returned |-> "value",
          value |-> [obj |-> obj, name |-> name], host_state |-> obj, heap |-> hp,
          invoked |-> "-"]

\* How the transition callable of the held state obj can end: it hands back
\* an object it creates or the held state itself, or it raises.
Returns(hp, obj) ==
    {[new |-> TRUE, cls |-> c, obj |-> Len(hp) + 1, raises |-> FALSE] : c \in ObjClasses}
    \cup {[new |-> FALSE, cls |-> hp[o], obj |-> o, raises |-> FALSE] :
              o \in DOMAIN hp \cap {obj}}
    \cup {[new |-> FALSE, cls |-> "-", obj |-> 0, raises |-> TRUE]}

\* A faulty transition wrapper: the held state object is turned into the
\* new state in place (its __class__ reassigned) and stays the held one.
TransitionWrapperInPlace(ms, hp, obj, name, ret) ==
    IF CheckMember(ms, hp, obj, name) # "ok"
    THEN Raised(CheckMember(ms, hp, obj, name), name, hp, obj)
    ELSE [outcome |-> "ok", msg |-> NoMsg, returned |-> "None", value |-> NoValue,
          host_state |-> obj, heap |-> [hp EXCEPT ![obj] = ret.cls], invoked |-> "returned"]

\* A faulty transition wrapper: an exception of the callable is caught, and
\* the host is left holding None.
TransitionWrapperSwallows(ms, hp, obj, name, ret) ==
    IF CheckMember(ms, hp, obj, name) # "ok"
    THEN Raised(CheckMember(ms, hp, obj, name), name, hp, obj)
    ELSE IF ret.raises
    THEN [outcome |-> "ok", msg |-> NoMsg, returned |-> "None", value |-> NoValue,
          host_state |-> Len(hp) + 1, heap |-> Append(hp, "NoneType"),
          invoked |-> "raised"]
    ELSE [outcome |-> "ok", msg |-> NoMsg, returned |-> "None", value |-> NoValue,
          host_state |-> ret.obj,
          heap |-> IF ret.new THEN Append(hp, ret.cls) ELSE hp, invoked |-> "returned"]

\* The wrapper of a transition: the check, then
\* new_state = self._state.<name>(...); self._state = new_state; return None.
\* An exception of the callable leaves the wrapper at its first line.
TransitionWrapper(ms, hp, obj, name, ret) ==
    IF CheckMember(ms, hp, obj, name) # "ok"
    THEN Raised(CheckMember(ms, hp, obj, name), name, hp, obj)
    ELSE IF ret.raises
    THEN [Raised("Exception", name, hp, obj) EXCEPT !.invoked = "raised"]
    ELSE [outcome |-> "ok", msg |-> NoMsg, returned |-> "None", value |-> NoValue,
          host_state |-> ret.obj,
          heap |-> IF ret.new THEN Append(hp, ret.cls) ELSE hp, invoked |-> "returned"]

VARIABLES
    registry,          \* StateRegistry._registry: class -> ClassStateItem
    member_registry,   \* StateRegistry._member_registry: class -> MemberStateItem
    is_resolved,       \* StateRegistry._is_resolved
    resolved_state_items, \* resolved_state_items of the resolver's run
    cls_to_state,      \* AddState._cls_to_state[Host], NoDefinition before
    host_members,      \* the attributes the binder has set on the host class
    member_sets,       \* state class -> the member set the binder stored on it
    heap,              \* the state objects created so far: object id -> its class
    host_state,        \* the host instance's _state (an object id), 0: no host yet
    last,              \* what the last operation did, as its caller saw it
    fields,            \* object id -> the attributes its __init__ set on the object
    reader,            \* a second thread's last read through the host instance
    writer,            \* the transition wrapper the first thread is inside of
    instance_map,      \* singleton class -> SingletonImpl._instance_map
    original_new_calls,   \* singleton class -> the calls of original_new so far
    original_init_calls,  \* singleton class -> the calls of original_init so far
    returned,          \* what the constructions of singleton classes returned
    traversal,         \* a run of validate_state_transition_map on a definition
    extension,         \* a StateRegistry and the registry its extend() returned
    collectors         \* the classes declared through StateDefinition (_collectors.py)

\* The attributes of the state objects, the second thread, patterns.singleton.
others == <<fields, reader, writer, instance_map, original_new_calls, original_init_calls, returned,
           traversal, extension, collectors>>

vars == <<registry, member_registry, is_resolved, resolved_state_items, cls_to_state, host_members,
          member_sets, heap, host_state, last, others>>

\* last: the operation, the member it named, how it ended ("ok" or the
\* exception), the message of a StateError, what it returned, and the object
\* the host held when it began; for add_state, the names the host class had
\* when the binder got it; for a transition, how the transition callable of
\* the held object ended ("returned", "raised"), "-" when it was not invoked,
\* and the arguments of the call; for add_state, how resolver.resolve ended.
NoOp == [op |-> "none", name |-> "-", outcome |-> "-", msg |-> NoMsg,
         returned |-> "-", value |-> NoValue, before |-> 0, own |-> {},
         invoked |-> "-", args |-> <<>>, resolver |-> "-"]

\* The second thread before its first read; after a read: the member, the
\* object its check read from the host, the object its return line read, how
\* the check ended, and how the return line ended ("value",
\* "AttributeError") with the value it returned.
ReaderIdle == [pc |-> "idle", name |-> "-", checked |-> 0, read |-> 0, outcome |-> "-",
               got |-> "-", value |-> 0]

\* The first thread outside the transition wrappers; inside one: the
\* transition, its arguments, the object the callable creates and the
\* attributes that object's __init__ sets.
WriterIdle == [pc |-> "idle", name |-> "-", obj |-> 0, fields |-> EmptyMap, args |-> <<>>]

\* No run of validate_state_transition_map on its own.
TraversalIdle == [pc |-> "idle", by_cls |-> EmptyMap, error |-> "-", reachable |-> {},
                  dequeued |-> 0]

\* A StateRegistry() as its __init__ leaves it; member_registry maps a key to
\* the position of its MemberStateItem object among the objects created.
NewStateRegistry == [is_resolved |-> FALSE, registry |-> EmptyMap, member_registry |-> EmptyMap]

\* No second registry: the MemberStateItem objects created, the registry, the
\* one extend() returned (once extend was called), the decorators applied to
\* the two, and the last operation on either of them.
ExtensionIdle == [items |-> <<>>, original |-> NewStateRegistry, copy |-> NewStateRegistry,
                  extended |-> FALSE, registrations |-> 0,
                  op |-> "none", on |-> "-", outcome |-> "-"]

\* No class declared through StateDefinition: the collectors of
\* _global_state_collector by definition, the __init__ in the __dict__ of
\* each class, the class statements run and the classes they bound, the
\* descriptors set on the holder classes, and the last statement or call.
CollectorsIdle == [state_collectors |-> EmptyMap, inits |-> EmptyMap, attempted |-> {},
                   bound |-> {}, descriptors |-> EmptyMap,
                   op |-> "none", cls |-> "-", outcome |-> "-", init |-> "-"]

\* The classes made singletons, all with the default key getter: S with no
\* __init__ and no __new__ of its own, T with def __init__(self, x), and U
\* with def __new__(cls, *args) and def __init__(self, x).
SingletonClasses == {"S", "T", "U"}

\* The number of arguments a construction of the class is written with.
ConstructorArgs(c) == IF c = "S" THEN 0 ELSE 1

\* The class defines __new__ itself.
OwnNew(c) == c = "U"

\* The number of decorators applied so far, to distinct classes and
\* functions (the model bounds it by MaxDecorators).
RECURSIVE CountMembersIn(_, _)
CountMembersIn(S, mreg) ==
    IF S = {} THEN 0
    ELSE LET c == CHOOSE x \in S : TRUE
         IN Cardinality(mreg[c].properties) + Cardinality(mreg[c].methods)
            + Cardinality(DOMAIN mreg[c].transitions)
            + CountMembersIn(S \ {c}, mreg)

CountDecorators(reg, mreg) ==
    Cardinality(DOMAIN reg) + CountMembersIn(DOMAIN mreg, mreg)

Init ==
    /\ registry = EmptyMap
    /\ member_registry = EmptyMap
    /\ is_resolved = FALSE
    /\ resolved_state_items = <<>>
    /\ cls_to_state = NoDefinition
    /\ host_members = EmptyMap
    /\ member_sets = EmptyMap
    /\ heap = <<>>
    /\ host_state = 0
    /\ last = NoOp
    /\ fields = EmptyMap
    /\ reader = ReaderIdle
    /\ writer = WriterIdle
    /\ instance_map = [c \in SingletonClasses |-> EmptyMap]
    /\ original_new_calls = [c \in SingletonClasses |-> 0]
    /\ original_init_calls = [c \in SingletonClasses |-> 0]
    /\ returned = <<>>
    /\ traversal = TraversalIdle
    /\ extension = ExtensionIdle
    /\ collectors = CollectorsIdle

\* ------------------------------------------------------------------------
\* api.py: the decorators of StateRegistry and add_state
\* ------------------------------------------------------------------------

\* A faulty StateRegistry.resolved: the flag resolve() sets is not looked at.
ResolvedNever(flag) == FALSE

\* StateRegistry.resolved, and the test of _check_is_unresolved
Resolved(flag) == flag

\* StateRegistry._check_is_unresolved raising, and the raise of add_state
\* for a registry that is resolved
RaiseResolved(op) ==
    /\ Resolved(is_resolved)
    /\ last' = [NoOp EXCEPT !.op = op, !.name = "_check_is_unresolved",
                            !.outcome = "StateConfigError", !.before = host_state]
    /\ UNCHANGED <<others, registry, member_registry, is_resolved, resolved_state_items, cls_to_state,
                   host_members, member_sets, heap, host_state>>

\* StateRegistry._get_member_state_item
GetMemberStateItem(mreg, c) ==
    IF c \in DOMAIN mreg THEN mreg ELSE Put(mreg, c, NewMemberStateItem)

\* @state.register(initial=..., abstract=..., attributes=[...]) class c
Register(c, initial, abstract, attributes) ==
    \/ RaiseResolved("decorate")
    \/ /\ ~Resolved(is_resolved)
       /\ LET reg == Put(registry, c, [initial |-> initial, abstract |-> abstract,
                                       attributes |-> attributes])
          IN /\ CountDecorators(reg, member_registry) <= MaxDecorators
             /\ registry' = reg
       /\ last' = [NoOp EXCEPT !.op = "decorate"]
       /\ UNCHANGED <<others, member_registry, is_resolved, resolved_state_items, cls_to_state, host_members,
                      member_sets, heap, host_state>>

\* @state.method def n(self) in the body of class c
Method(c, n) ==
    \/ RaiseResolved("decorate")
    \/ /\ ~Resolved(is_resolved)
       /\ LET mreg == GetMemberStateItem(member_registry, c)
              new == [mreg EXCEPT ![c].methods = @ \cup {n}]
          IN /\ CountDecorators(registry, new) <= MaxDecorators
             /\ member_registry' = new
       /\ last' = [NoOp EXCEPT !.op = "decorate"]
       /\ UNCHANGED <<others, registry, is_resolved, resolved_state_items, cls_to_state, host_members,
                      member_sets, heap, host_state>>

\* @state.property_ def n(self) in the body of class c
Property(c, n) ==
    \/ RaiseResolved("decorate")
    \/ /\ ~Resolved(is_resolved)
       /\ LET mreg == GetMemberStateItem(member_registry, c)
              new == [mreg EXCEPT ![c].properties = @ \cup {n}]
          IN /\ CountDecorators(registry, new) <= MaxDecorators
             /\ member_registry' = new
       /\ last' = [NoOp EXCEPT !.op = "decorate"]
       /\ UNCHANGED <<others, registry, is_resolved, resolved_state_items, cls_to_state, host_members,
                      member_sets, heap, host_state>>

\* @state.transition(to=to) def n(self) in the body of class c
Transition(c, n, to) ==
    \/ RaiseResolved("decorate")
    \/ /\ ~Resolved(is_resolved)
       /\ LET mreg == GetMemberStateItem(member_registry, c)
              new == [mreg EXCEPT ![c].transitions = Put(@, n, to)]
          IN /\ CountDecorators(registry, new) <= MaxDecorators
             /\ member_registry' = new
       /\ last' = [NoOp EXCEPT !.op = "decorate"]
       /\ UNCHANGED <<others, registry, is_resolved, resolved_state_items, cls_to_state, host_members,
                      member_sets, heap, host_state>>

\* @add_state(state) class Host with a body defining the names `own`, the
\* resolver listing the keys in `order`
AddState(order, own) ==
    \/ RaiseResolved("add_state")
    \/ /\ ~Resolved(is_resolved)
       /\ is_resolved' = TRUE
       /\ LET res == Resolve(registry, member_registry, order)
              add == AddStateTo(res.definition, HostBody(own), member_sets)
          IN /\ resolved_state_items' = res.items
             /\ IF res.outcome # "ok"
                THEN /\ \E end \in Ends(res.outcome) :
                           last' = [NoOp EXCEPT !.op = "add_state", !.outcome = end,
                                                !.resolver = end]
                     /\ UNCHANGED <<cls_to_state, host_members, member_sets>>
                ELSE IF AlreadyAdded(cls_to_state)
                THEN /\ last' = [NoOp EXCEPT !.op = "add_state", !.resolver = "ok",
                                             !.outcome = "StateConfigError"]
                     /\ UNCHANGED <<cls_to_state, host_members, member_sets>>
                ELSE /\ last' = [NoOp EXCEPT !.op = "add_state", !.outcome = add.outcome,
                                             !.own = own, !.resolver = "ok"]
                     /\ host_members' = SetByBinder(add.host_members)
                     /\ member_sets' = add.member_sets
                     /\ cls_to_state' = IF add.outcome = "ok" THEN res.definition
                                        ELSE cls_to_state
       /\ UNCHANGED <<others, registry, member_registry, heap, host_state>>

\* add_state(other)(Host) for another registry of the module, once Host has
\* its state: the registry other is resolved, and the binder is given the
\* class a state was added to.
AddStateOther(other, order) ==
    /\ cls_to_state # NoDefinition
    /\ LET res == Resolve(other.registry, other.member_registry, order)
           add == AddStateTo(res.definition, host_members, member_sets)
       IN IF res.outcome # "ok"
          THEN /\ \E end \in Ends(res.outcome) :
                     last' = [NoOp EXCEPT !.op = "add_other", !.outcome = end,
                                          !.resolver = end, !.before = host_state]
               /\ UNCHANGED <<cls_to_state, host_members, member_sets>>
          ELSE IF AlreadyAdded(cls_to_state)
          THEN /\ last' = [NoOp EXCEPT !.op = "add_other", !.outcome = "StateConfigError",
                                       !.resolver = "ok",
                                       !.before = host_state]
               /\ UNCHANGED <<cls_to_state, host_members, member_sets>>
          ELSE /\ last' = [NoOp EXCEPT !.op = "add_other", !.outcome = add.outcome,
                                       !.resolver = "ok",
                                       !.before = host_state]
               /\ host_members' = add.host_members
               /\ member_sets' = add.member_sets
               /\ cls_to_state' = IF add.outcome = "ok" THEN res.definition
                                  ELSE cls_to_state
    /\ UNCHANGED <<others, registry, member_registry, is_resolved, resolved_state_items, heap,
                   host_state>>

\* ------------------------------------------------------------------------
\* The host instance
\* ------------------------------------------------------------------------

\* Host(): the wrapped __init__ (create_wrapped_state_init)
Construct ==
    /\ host_state = 0
    /\ "__init__" \in DOMAIN host_members
    /\ Len(heap) < MaxInstances
    /\ heap' = Append(heap, host_members["__init__"].cls)
    /\ host_state' = Len(heap) + 1
    /\ last' = [NoOp EXCEPT !.op = "construct", !.outcome = "ok"]
    /\ UNCHANGED <<others, registry, member_registry, is_resolved, resolved_state_items, cls_to_state,
                   host_members, member_sets>>

\* A faulty wrapper: when it raises StateError, it adds the member's name to
\* the member set it looked the name up in.
MemberSetsLearned(ms, run) ==
    IF run.outcome = "StateError"
    THEN [ms EXCEPT ![MemberSetOwner(ms, run.heap[run.host_state])] =
                        @ \cup {run.msg.member}]
    ELSE ms

\* The member sets of the state classes after a wrapper has run: the
\* wrappers look names up in them (_get_body_lines) and never write to them.
MemberSetsAfter(ms, run) == ms

\* The end of a wrapper that ran as `run`, as its caller sees it.
Finish(op, name, run) ==
    /\ last' = [op |-> op, name |-> name, outcome |-> run.outcome, msg |-> run.msg,
                returned |-> run.returned, value |-> run.value, before |-> host_state,
                own |-> {}, invoked |-> run.invoked, args |-> <<>>, resolver |-> "-"]
    /\ host_state' = run.host_state
    /\ heap' = run.heap
    /\ member_sets' = MemberSetsAfter(member_sets, run)
    /\ UNCHANGED <<others, registry, member_registry, is_resolved, resolved_state_items, cls_to_state,
                   host_members>>

\* host.n or host.n(...) for an attribute, a property or a method n
Access(n) ==
    /\ host_state # 0
    /\ n \in DOMAIN host_members
    /\ host_members[n].kind \in {"attribute", "property", "method"}
    /\ Finish("access", n, MemberWrapper(member_sets, heap, host_state, n))

\* host.n for a member the binder set no wrapper for
AccessUnbound(n) ==
    /\ host_state # 0
    /\ n \notin DOMAIN host_members
    /\ \E c \in DOMAIN member_registry \cup DOMAIN registry :
          n \in MemberNamesOf(MatchItem(registry, member_registry, c))
    /\ Finish("access", n, [outcome |-> "AttributeError", msg |-> NoMsg, returned |-> "-",
                            value |-> NoValue, host_state |-> host_state, heap |-> heap,
               invoked |-> "-"])

\* host.n(...) for a transition n whose callable hands back ret
CallTransition(n, ret) ==
    /\ host_state # 0
    /\ n \in DOMAIN host_members
    /\ host_members[n].kind = "transition"
    /\ (ret.new => Len(heap) < MaxInstances)
    /\ Finish("transition", n, TransitionWrapper(member_sets, heap, host_state, n, ret))

\* The getter of the state property (_add_state_property): return self._state
StateProperty(obj) == obj

\* host.state
ReadState ==
    /\ host_state # 0
    /\ "state" \in DOMAIN host_members
    /\ Finish("read_state", "state",
              [outcome |-> "ok", msg |-> NoMsg, returned |-> "value",
               value |-> [obj |-> StateProperty(host_state), name |-> "state"],
               host_state |-> host_state, heap |-> heap,
               invoked |-> "-"])

\* host.state = ...: the property has no setter
SetState ==
    /\ host_state # 0
    /\ "state" \in DOMAIN host_members
    /\ Finish("set_state", "state",
              [outcome |-> "AttributeError", msg |-> NoMsg, returned |-> "-",
               value |-> NoValue, host_state |-> host_state, heap |-> heap,
               invoked |-> "-"])

\* The orders add_state can list the keys in and the host bodies it can be
\* given: a resolved registry raises before resolver.resolve lists any key
\* and before the host class is looked at.
ListedOrders ==
    IF Resolved(is_resolved) THEN {<<>>} ELSE MatchOrders(registry, member_registry)
ListedBodies == IF Resolved(is_resolved) THEN {{}} ELSE HostBodies

\* The arguments a decorator can be given, out of S: a resolved registry
\* raises before it looks at any, so one stands for all.
Given(S) == IF Resolved(is_resolved) THEN {CHOOSE x \in S : TRUE} ELSE S

Next ==
    \/ \E c \in Given(Classes), i \in Given(BOOLEAN), a \in Given(BOOLEAN) :
          \E at \in Given(SUBSET {x[2] : x \in {y \in ClassAttributes : y[1] = c}}) :
             Register(c, i, a, at)
    \/ \E x \in Given(ClassMethods) : Method(x[1], x[2])
    \/ \E x \in Given(ClassProperties) : Property(x[1], x[2])
    \/ \E x \in Given(ClassTransitions), to \in Given(Destinations) :
          Transition(x[1], x[2], to)
    \/ \E order \in ListedOrders, own \in ListedBodies : AddState(order, own)
    \/ \E other \in OtherRegistries :
          \E order \in MatchOrders(other.registry, other.member_registry) :
             AddStateOther(other, order)
    \/ Construct
    \/ \E n \in MemberNames : Access(n)
    \/ \E n \in MemberNames : AccessUnbound(n)
    \/ \E n \in MemberNames, ret \in Returns(heap, host_state) : CallTransition(n, ret)
    \/ ReadState
    \/ SetState

Spec == Init /\ [][Next]_vars

\* ------------------------------------------------------------------------
\* tests/state_pattern/test_basic.py: the article machine
\* ------------------------------------------------------------------------

\* The registry and the member registry once the module's class bodies have
\* run, before @add_state(state) class Article.
ArticleRegistry ==
    [c \in ArticleClasses |->
        [initial |-> c = "Demanded", abstract |-> FALSE,
         attributes |-> CASE c = "Ordered" -> {"cost"}
                          [] c = "InStock" -> {"stock_location"}
                          [] c = "OnDispatch" -> {"shipping_address"}
                          [] OTHER -> {}]]

ArticleMemberRegistry ==
    [c \in ArticleClasses |->
        [properties |-> IF c = "Sold" THEN {"margin"} ELSE {},
         methods |-> {},
         transitions |-> CASE c = "Demanded" -> [order |-> "Ordered"]
                           [] c = "Ordered" -> [arrived_at_stock |-> "InStock"]
                           [] c = "InStock" -> [ship |-> "OnDispatch"]
                           [] c = "OnDispatch" -> [arrived_at_customer |-> "Sold"]
                           [] OTHER -> EmptyMap]]

ArticleMembers == {"cost", "stock_location", "shipping_address", "margin"}
ArticleTransitions == {"order", "arrived_at_stock", "ship", "arrived_at_customer"}

\* The arguments the calls of the test are written with: cost and price in
\* cents, a stock location, an address. A call uses those of its signature.
Costs == {359, 200}
ArticleArgs ==
    [cost : Costs, stock_location : {331}, address : {"..."}, price_sold : {499}]

\* The attributes the __init__ of a state object set on it.
FieldsOf(flds, obj) == IF obj \in DOMAIN flds THEN flds[obj] ELSE EmptyMap

\* What the transition callable n of the held object obj returns: the class
\* of the object it creates and the attributes that object's __init__ sets.
\* A class without a callable of that name: the lookup raises.
ArticleCallable(hp, flds, obj, n, args) ==
    LET self == FieldsOf(flds, obj)
    IN CASE hp[obj] = "Demanded" /\ n = "order" ->
              [raises |-> FALSE, cls |-> "Ordered", fields |-> [cost |-> args.cost]]
         [] hp[obj] = "Ordered" /\ n = "arrived_at_stock" ->
              [raises |-> FALSE, cls |-> "InStock",
               fields |-> [cost |-> self.cost, stock_location |-> args.stock_location]]
         [] hp[obj] = "InStock" /\ n = "ship" ->
              [raises |-> FALSE, cls |-> "OnDispatch",
               fields |-> [cost |-> self.cost, price_sold |-> args.price_sold,
                           shipping_address |-> args.address]]
         [] hp[obj] = "OnDispatch" /\ n = "arrived_at_customer" ->
              [raises |-> FALSE, cls |-> "Sold",
               fields |-> [cost |-> self.cost, price_sold |-> self.price_sold]]
         [] OTHER -> [raises |-> TRUE, cls |-> "-", fields |-> EmptyMap]

\* getattr(obj, name) on a state object: an attribute its __init__ set, or
\* the property margin of Sold.
GetAttr(hp, flds, obj, name) ==
    IF name \in DOMAIN FieldsOf(flds, obj) THEN FieldsOf(flds, obj)[name]
    ELSE IF hp[obj] = "Sold" /\ name = "margin"
    THEN FieldsOf(flds, obj).price_sold - FieldsOf(flds, obj).cost
    ELSE -1

\* The module as imported up to the class statement of Article.
ArticleInit ==
    /\ registry = ArticleRegistry
    /\ member_registry = ArticleMemberRegistry
    /\ is_resolved = FALSE
    /\ resolved_state_items = <<>>
    /\ cls_to_state = NoDefinition
    /\ host_members = EmptyMap
    /\ member_sets = EmptyMap
    /\ heap = <<>>
    /\ host_state = 0
    /\ last = NoOp
    /\ fields = EmptyMap
    /\ reader = ReaderIdle
    /\ writer = WriterIdle
    /\ instance_map = [c \in SingletonClasses |-> EmptyMap]
    /\ original_new_calls = [c \in SingletonClasses |-> 0]
    /\ original_init_calls = [c \in SingletonClasses |-> 0]
    /\ returned = <<>>
    /\ traversal = TraversalIdle
    /\ extension = ExtensionIdle
    /\ collectors = CollectorsIdle

\* article.n(...) for a transition n called with the arguments args
ArticleCall(n, args) ==
    /\ host_state # 0
    /\ n \in DOMAIN host_members
    /\ host_members[n].kind = "transition"
    /\ LET made == ArticleCallable(heap, fields, host_state, n, args)
           ret == [new |-> ~made.raises, cls |-> made.cls,
                   obj |-> IF made.raises THEN 0 ELSE Len(heap) + 1,
                   raises |-> made.raises]
           run == TransitionWrapper(member_sets, heap, host_state, n, ret)
       IN /\ last' = [op |-> "transition", name |-> n, outcome |-> run.outcome,
                      msg |-> run.msg, returned |-> run.returned, value |-> run.value,
                      before |-> host_state, own |-> {}, invoked |-> run.invoked,
                      args |-> args, resolver |-> "-"]
          /\ host_state' = run.host_state
          /\ heap' = run.heap
          /\ fields' = IF run.outcome = "ok" THEN Put(fields, run.host_state, made.fields)
                       ELSE fields
    /\ UNCHANGED <<registry, member_registry, is_resolved, resolved_state_items, cls_to_state,
                   host_members, member_sets, reader, writer, instance_map,
                   original_new_calls, original_init_calls, returned, traversal,
                   extension, collectors>>

\* Article has annotations only: its body defines no name.
ArticleNext ==
    \/ \E order \in ListedOrders : AddState(order, {})
    \/ Construct
    \/ \E n \in ArticleMembers : Access(n)
    \/ \E n \in ArticleTransitions, args \in ArticleArgs : ArticleCall(n, args)
    \/ ReadState

ArticleSpec == ArticleInit /\ [][ArticleNext]_vars

\* The module of the test with initial=True on the class k instead.
InitialInit ==
    \E k \in ArticleClasses :
       /\ registry = [c \in ArticleClasses |->
                         [ArticleRegistry[c] EXCEPT !.initial = (c = k)]]
       /\ member_registry = ArticleMemberRegistry
       /\ is_resolved = FALSE
       /\ resolved_state_items = <<>>
       /\ cls_to_state = NoDefinition
       /\ host_members = EmptyMap
       /\ member_sets = EmptyMap
       /\ heap = <<>>
       /\ host_state = 0
       /\ last = NoOp
       /\ fields = EmptyMap
       /\ reader = ReaderIdle
       /\ writer = WriterIdle
       /\ instance_map = [c \in SingletonClasses |-> EmptyMap]
       /\ original_new_calls = [c \in SingletonClasses |-> 0]
       /\ original_init_calls = [c \in SingletonClasses |-> 0]
       /\ returned = <<>>
       /\ traversal = TraversalIdle
       /\ extension = ExtensionIdle
       /\ collectors = CollectorsIdle

InitialSpec == InitialInit /\ [][ArticleNext]_vars

\* ------------------------------------------------------------------------
\* An Article shared by two threads: one calls transitions, one reads members
\* ------------------------------------------------------------------------

\* A faulty wrapper, one that can be suspended between its check and its
\* return line: the return line can read the object the other thread is
\* about to store.
ReadAfterCheckRacy(checked, w) ==
    {checked} \cup (IF w.pc = "store" THEN {w.obj} ELSE {})

\* The objects the return line of a wrapper (return self._state.<name>) can
\* read from the host after the check read the object `checked`, while the
\* other thread is at w in a transition wrapper. The interpreter switches
\* threads at calls and backward jumps only, and the body lines have neither
\* between the check and the return line: it is the object the check read.
ReadAfterCheck(checked, w) == {checked}

\* article.n(...) in the first thread, up to the call of the transition
\* callable: the check, then the callable is entered and the new state
\* object exists, its __init__ not yet run. A failing check raises at once.
WriterBegin(n, args) ==
    /\ writer.pc = "idle"
    /\ host_state # 0
    /\ n \in DOMAIN host_members
    /\ host_members[n].kind = "transition"
    /\ LET made == ArticleCallable(heap, fields, host_state, n, args)
           ret == [new |-> ~made.raises, cls |-> made.cls,
                   obj |-> IF made.raises THEN 0 ELSE Len(heap) + 1,
                   raises |-> made.raises]
           run == TransitionWrapper(member_sets, heap, host_state, n, ret)
       IN IF run.outcome # "ok"
          THEN /\ last' = [op |-> "transition", name |-> n, outcome |-> run.outcome,
                           msg |-> run.msg, returned |-> run.returned, value |-> run.value,
                           before |-> host_state, own |-> {}, invoked |-> run.invoked,
                           args |-> args, resolver |-> "-"]
               /\ UNCHANGED <<heap, writer>>
          ELSE /\ heap' = run.heap
               /\ writer' = [pc |-> "init", name |-> n, obj |-> run.host_state,
                             fields |-> made.fields, args |-> args]
               /\ UNCHANGED last
    /\ UNCHANGED <<registry, member_registry, is_resolved, resolved_state_items, cls_to_state,
                   host_members, member_sets, host_state, fields, reader, instance_map,
                   original_new_calls, original_init_calls, returned, traversal,
                   extension, collectors>>

\* The __init__ of the new state object runs, and the callable returns it.
WriterInit ==
    /\ writer.pc = "init"
    /\ fields' = Put(fields, writer.obj, writer.fields)
    /\ writer' = [writer EXCEPT !.pc = "store"]
    /\ UNCHANGED <<registry, member_registry, is_resolved, resolved_state_items, cls_to_state,
                   host_members, member_sets, heap, host_state, last, reader, instance_map,
                   original_new_calls, original_init_calls, returned, traversal,
                   extension, collectors>>

\* self._state = new_state; return None
WriterStore ==
    /\ writer.pc = "store"
    /\ host_state' = writer.obj
    /\ last' = [NoOp EXCEPT !.op = "transition", !.name = writer.name, !.outcome = "ok",
                            !.returned = "None", !.before = host_state,
                            !.invoked = "returned", !.args = writer.args]
    /\ writer' = WriterIdle
    /\ UNCHANGED <<registry, member_registry, is_resolved, resolved_state_items, cls_to_state,
                   host_members, member_sets, heap, fields, reader, instance_map,
                   original_new_calls, original_init_calls, returned, traversal,
                   extension, collectors>>

\* How getattr(obj, name) ends: with a value, or with AttributeError when
\* obj has no such attribute.
HasAttr(hp, flds, obj, name) ==
    name \in DOMAIN FieldsOf(flds, obj) \/ (hp[obj] = "Sold" /\ name = "margin")

\* article.n in the second thread, for an attribute or a property n: the
\* check on the object self._state holds, then the return line on the object
\* self._state holds then. Were that another object, the first thread has
\* stored it in between.
ReaderAccess(n) ==
    /\ host_state # 0
    /\ n \in DOMAIN host_members
    /\ host_members[n].kind \in {"attribute", "property"}
    /\ \E r \in ReadAfterCheck(host_state, writer) :
          LET check == CheckMember(member_sets, heap, host_state, n)
          IN /\ reader' = [pc |-> "done", name |-> n, checked |-> host_state,
                           read |-> IF check = "ok" THEN r ELSE 0,
                           outcome |-> check,
                           got |-> IF check # "ok" THEN "-"
                                   ELSE IF HasAttr(heap, fields, r, n) THEN "value"
                                   ELSE "AttributeError",
                           value |-> IF check = "ok" /\ HasAttr(heap, fields, r, n)
                                     THEN GetAttr(heap, fields, r, n) ELSE 0]
             /\ IF check = "ok" /\ r # host_state
                THEN /\ host_state' = r
                     /\ writer' = WriterIdle
                     /\ last' = [NoOp EXCEPT !.op = "transition", !.name = writer.name,
                                             !.outcome = "ok", !.returned = "None",
                                             !.before = host_state,
                                             !.invoked = "returned",
                                             !.args = writer.args]
                ELSE UNCHANGED <<host_state, writer, last>>
    /\ UNCHANGED <<registry, member_registry, is_resolved, resolved_state_items, cls_to_state,
                   host_members, member_sets, heap, fields, instance_map,
                   original_new_calls, original_init_calls, returned, traversal,
                   extension, collectors>>

\* The orders the resolver listed the keys in when the module was imported:
\* the wrappers and the member sets of the article machine are the same for
\* every order, two stand for all.
ConcurrentOrders ==
    {<<"Demanded", "Ordered", "InStock", "OnDispatch", "Sold">>,
     <<"Sold", "OnDispatch", "InStock", "Ordered", "Demanded">>}

\* The module imported to its end: @add_state(state) class Article has run.
ConcurrentInit ==
    \E order \in ConcurrentOrders :
       LET res == Resolve(ArticleRegistry, ArticleMemberRegistry, order)
           add == AddStateTo(res.definition, HostBody({}), EmptyMap)
       IN /\ registry = ArticleRegistry
          /\ member_registry = ArticleMemberRegistry
          /\ is_resolved = TRUE
          /\ resolved_state_items = res.items
          /\ cls_to_state = res.definition
          /\ host_members = SetByBinder(add.host_members)
          /\ member_sets = add.member_sets
          /\ heap = <<>>
          /\ host_state = 0
          /\ last = [NoOp EXCEPT !.op = "add_state", !.outcome = add.outcome,
                                 !.resolver = res.outcome]
          /\ fields = EmptyMap
          /\ reader = ReaderIdle
          /\ writer = WriterIdle
          /\ instance_map = [c \in SingletonClasses |-> EmptyMap]
          /\ original_new_calls = [c \in SingletonClasses |-> 0]
          /\ original_init_calls = [c \in SingletonClasses |-> 0]
          /\ returned = <<>>
          /\ traversal = TraversalIdle
          /\ extension = ExtensionIdle
          /\ collectors = CollectorsIdle

ConcurrentNext ==
    \/ Construct
    \/ \E n \in ArticleTransitions, args \in ArticleArgs : WriterBegin(n, args)
    \/ WriterInit
    \/ WriterStore
    \/ \E n \in ArticleMembers : ReaderAccess(n)

ConcurrentSpec == ConcurrentInit /\ [][ConcurrentNext]_vars

\* ------------------------------------------------------------------------
\* validate_state_transition_map on the definitions of up to three states
\* ------------------------------------------------------------------------

\* The transitions a state class of such a definition can have.
TraversalNames == {"t", "u"}

\* state_items_by_cls of the definitions: A the initial state, every state
\* with transitions of these names to classes of the module.
TraversalMaps ==
    UNION {[S -> {[cls |-> "-", transitions |-> tr] :
                     tr \in UNION {[N -> [owner : {"-"}, to : Classes]] :
                                     N \in SUBSET TraversalNames}}] :
              S \in {T \in SUBSET Classes : "A" \in T}}

TraversalInit ==
    /\ registry = EmptyMap
    /\ member_registry = EmptyMap
    /\ is_resolved = FALSE
    /\ resolved_state_items = <<>>
    /\ cls_to_state = NoDefinition
    /\ host_members = EmptyMap
    /\ member_sets = EmptyMap
    /\ heap = <<>>
    /\ host_state = 0
    /\ last = NoOp
    /\ fields = EmptyMap
    /\ reader = ReaderIdle
    /\ writer = WriterIdle
    /\ instance_map = [c \in SingletonClasses |-> EmptyMap]
    /\ original_new_calls = [c \in SingletonClasses |-> 0]
    /\ original_init_calls = [c \in SingletonClasses |-> 0]
    /\ returned = <<>>
    /\ extension = ExtensionIdle
    /\ collectors = CollectorsIdle
    /\ \E m \in TraversalMaps :
          traversal = [pc |-> "start",
                       by_cls |-> [c \in DOMAIN m |-> [m[c] EXCEPT !.cls = c]],
                       error |-> "-", reachable |-> {}, dequeued |-> 0]

\* The while loop of validate_state_transition_map, from the queue holding
\* the initial state to the empty queue or the KeyError.
TraverseDefinition ==
    /\ traversal.pc = "start"
    /\ LET run == Traverse(<<"A">>, {}, traversal.by_cls, 0)
       IN traversal' = [pc |-> "done", by_cls |-> traversal.by_cls, error |-> run.error,
                        reachable |-> run.reachable, dequeued |-> run.dequeued]
    /\ UNCHANGED <<registry, member_registry, is_resolved, resolved_state_items, cls_to_state,
                   host_members, member_sets, heap, host_state, last, fields, reader,
                   writer, instance_map, original_new_calls, original_init_calls, returned,
                   extension, collectors>>

TraversalNext == TraverseDefinition

TraversalSpec == TraversalInit /\ [][TraversalNext]_vars

\* ------------------------------------------------------------------------
\* api.py: StateRegistry.extend, and the decorators of a registry and of the
\* registry extend() returned for it
\* ------------------------------------------------------------------------

\* The classes and functions of the module the two registries decorate, and
\* the decorators applied in a run (to either registry).
ExtensionClasses == {"A", "B"}
ExtensionNames == {"m"}
MaxRegistrations == 2

\* The two StateRegistry objects.
Sides == {"original", "copy"}

\* The decorators of StateRegistry.
Registrations == {"register", "method", "property_", "transition"}

\* StateRegistry.extend: a new registry whose two dicts are dict(...) copies
\* of self's; the copy of the member dict holds the same MemberStateItem
\* objects under the same keys.
Extend(self) ==
    [is_resolved |-> NewStateRegistry.is_resolved,
     registry |-> [c \in DOMAIN self.registry |-> self.registry[c]],
     member_registry |-> [c \in DOMAIN self.member_registry |-> self.member_registry[c]]]

\* registry.extend() on the first registry
ExtendRegistry ==
    /\ ~extension.extended
    /\ extension' = [extension EXCEPT !.copy = Extend(extension.original),
                                      !.extended = TRUE,
                                      !.op = "extend", !.on = "original", !.outcome = "ok"]
    /\ UNCHANGED <<registry, member_registry, is_resolved, resolved_state_items, cls_to_state,
                   host_members, member_sets, heap, host_state, last, fields, reader,
                   writer, instance_map, original_new_calls, original_init_calls, returned,
                   traversal, collectors>>

\* StateRegistry.resolve on one of the two registries
ResolveRegistry(side) ==
    /\ side = "copy" => extension.extended
    /\ ~extension[side].is_resolved
    /\ extension' = [extension EXCEPT ![side].is_resolved = TRUE,
                                      !.op = "resolve", !.on = side, !.outcome = "ok"]
    /\ UNCHANGED <<registry, member_registry, is_resolved, resolved_state_items, cls_to_state,
                   host_members, member_sets, heap, host_state, last, fields, reader,
                   writer, instance_map, original_new_calls, original_init_calls, returned,
                   traversal, collectors>>

\* StateRegistry._check_is_unresolved raising in a decorator of one of the
\* two registries
RaiseResolvedOn(side, op) ==
    /\ Resolved(extension[side].is_resolved)
    /\ extension' = [extension EXCEPT !.op = op, !.on = side,
                                      !.outcome = "StateConfigError"]

\* @r.register(initial=...) class c, r one of the two registries
RegisterOn(side, c, initial) ==
    /\ side = "copy" => extension.extended
    /\ \/ RaiseResolvedOn(side, "register")
       \/ /\ ~Resolved(extension[side].is_resolved)
          /\ extension.registrations < MaxRegistrations
          /\ extension' =
                [extension EXCEPT
                    ![side].registry = Put(@, c, [initial |-> initial, abstract |-> FALSE,
                                                  attributes |-> {}]),
                    !.registrations = @ + 1,
                    !.op = "register", !.on = side, !.outcome = "ok"]
    /\ UNCHANGED <<registry, member_registry, is_resolved, resolved_state_items, cls_to_state,
                   host_members, member_sets, heap, host_state, last, fields, reader,
                   writer, instance_map, original_new_calls, original_init_calls, returned,
                   traversal, collectors>>

\* StateRegistry._get_member_state_item on one of the two registries: the
\* objects and the registry's member dict after it, and the position of the
\* object it returns.
GetMemberStateItemOn(ext, side, c) ==
    IF c \in DOMAIN ext[side].member_registry
    THEN [items |-> ext.items, member_registry |-> ext[side].member_registry,
          at |-> ext[side].member_registry[c]]
    ELSE [items |-> Append(ext.items, NewMemberStateItem),
          member_registry |-> Put(ext[side].member_registry, c, Len(ext.items) + 1),
          at |-> Len(ext.items) + 1]

\* state_item.<kind>s[func.__name__] = ... on the object a decorator got
StoreMember(item, kind, n, to) ==
    CASE kind = "method" -> [item EXCEPT !.methods = @ \cup {n}]
      [] kind = "property_" -> [item EXCEPT !.properties = @ \cup {n}]
      [] OTHER -> [item EXCEPT !.transitions = Put(@, n, to)]

\* @r.method, @r.property_ or @r.transition(to=...) def n(self) in the body
\* of class c, r one of the two registries
RegisterMemberOn(side, kind, c, n, to) ==
    /\ side = "copy" => extension.extended
    /\ \/ RaiseResolvedOn(side, kind)
       \/ /\ ~Resolved(extension[side].is_resolved)
          /\ extension.registrations < MaxRegistrations
          /\ LET got == GetMemberStateItemOn(extension, side, c)
             IN extension' =
                   [extension EXCEPT
                       !.items = [got.items EXCEPT ![got.at] = StoreMember(@, kind, n, to)],
                       ![side].member_registry = got.member_registry,
                       !.registrations = @ + 1,
                       !.op = kind, !.on = side, !.outcome = "ok"]
    /\ UNCHANGED <<registry, member_registry, is_resolved, resolved_state_items, cls_to_state,
                   host_members, member_sets, heap, host_state, last, fields, reader,
                   writer, instance_map, original_new_calls, original_init_calls, returned,
                   traversal, collectors>>

ExtensionNext ==
    \/ ExtendRegistry
    \/ \E side \in Sides : ResolveRegistry(side)
    \/ \E side \in Sides, c \in ExtensionClasses, initial \in BOOLEAN :
          RegisterOn(side, c, initial)
    \/ \E side \in Sides, kind \in {"method", "property_"}, c \in ExtensionClasses,
          n \in ExtensionNames :
          RegisterMemberOn(side, kind, c, n, "-")
    \/ \E side \in Sides, c \in ExtensionClasses, n \in ExtensionNames,
          to \in ExtensionClasses :
          RegisterMemberOn(side, "transition", c, n, to)

ExtensionSpec == Init /\ [][ExtensionNext]_vars

\* ------------------------------------------------------------------------
\* _collectors.py: classes declared through StateDefinition, by
\* state_cls_type 'definition', 'state' and 'holder'
\* ------------------------------------------------------------------------

\* The functions a class can have as __init__.
StateDefinitionInit == "state_definition_init"
StateClsInit == "state_cls_init"
StateEmptyInit == "state_empty_init"

\* The definitions of the module with their members: the annotations and
\* the functions of the class body, a transition with the name its marker
\* gives as destination.  D and E share the member x.
Definitions ==
    [d \in {"D", "E", "F"} |->
        CASE d = "D" -> [n \in {"x", "go", "back"} |->
                            CASE n = "x" -> [kind |-> "attribute", to |-> "-"]
                              [] n = "go" -> [kind |-> "transition", to |-> "B"]
                              [] OTHER -> [kind |-> "transition", to |-> "A"]]
          [] d = "E" -> [n \in {"x", "y"} |->
                            IF n = "x" THEN [kind |-> "attribute", to |-> "-"]
                            ELSE [kind |-> "method", to |-> "-"]]
          [] OTHER -> [n \in {"z"} |-> [kind |-> "attribute", to |-> "-"]]]

\* The state-implementation classes of the module: the bases, the names of
\* the annotations and members of the class body, and the __init__ of the
\* body with its parameters ("-" when the body has none).  B subclasses the
\* state class A, C has def __init__(self, x) and Q def __init__(self, z), N
\* implements no member.
StateClasses ==
    [c \in {"A", "B", "C", "P", "Q", "N"} |->
        CASE c = "A" -> [bases |-> <<"D">>, names |-> {"go"}, init |-> "-", params |-> {}]
          [] c = "B" -> [bases |-> <<"A">>, names |-> {"x", "back"}, init |-> "-",
                         params |-> {}]
          [] c = "C" -> [bases |-> <<"D">>, names |-> {"helper"}, init |-> "C.__init__",
                         params |-> {"self", "x"}]
          [] c = "P" -> [bases |-> <<"E">>, names |-> {"x", "y"}, init |-> "-", params |-> {}]
          [] c = "Q" -> [bases |-> <<"F">>, names |-> {"z"}, init |-> "Q.__init__",
                         params |-> {"self", "z"}]
          [] OTHER -> [bases |-> <<"F">>, names |-> {"helper"}, init |-> "-", params |-> {}]]

\* What the annotations of the holder classes are besides definitions: a
\* class that is no StateDefinition, a typing construct, and a string naming
\* nothing in the module.
PlainAnnotations == {"int", "Optional[int]", "'Later'"}

\* What a declaration or a call ends with.
CollectorOutcomes == {"ok", "StateConfigError", "NotImplementedError", "KeyError"}

\* The holder classes of the module: the bases, the annotations of the class
\* body in their order, and default_state_cls ("None" for None).
Holders ==
    [h \in {"H1", "H2", "H3", "H4", "H5", "H6"} |->
        CASE h = "H1" -> [bases |-> <<"D">>, default |-> "A",
                          annotations |-> <<[name |-> "state", type |-> "D"],
                                            [name |-> "number", type |-> "int"]>>]
          [] h = "H2" -> [bases |-> <<"D", "E">>, default |-> "None",
                          annotations |-> <<[name |-> "s1", type |-> "D"],
                                            [name |-> "s2", type |-> "E"]>>]
          [] h = "H3" -> [bases |-> <<"D", "F">>, default |-> "None",
                          annotations |-> <<[name |-> "s1", type |-> "D"],
                                            [name |-> "s3", type |-> "F"]>>]
          [] h = "H4" -> [bases |-> <<"D", "E">>, default |-> "None",
                          annotations |-> <<[name |-> "s1", type |-> "D"],
                                            [name |-> "s2", type |-> "E"],
                                            [name |-> "n", type |-> "Optional[int]"]>>]
          [] h = "H5" -> [bases |-> <<"F">>, default |-> "Q",
                          annotations |-> <<[name |-> "s3", type |-> "F"],
                                            [name |-> "start", type |-> "Q"]>>]
          [] OTHER -> [bases |-> <<"F">>, default |-> "Q",
                       annotations |-> <<[name |-> "s3", type |-> "F"],
                                         [name |-> "later", type |-> "'Later'"]>>]]

\* cls.mro() of a class of the module, up to StateDefinition.
RECURSIVE MroOf(_)
MroOf(c) ==
    IF c \in DOMAIN StateClasses THEN <<c>> \o MroOf(StateClasses[c].bases[1])
    ELSE <<c>>

\* cls.__init__: the __init__ of the first class of the mro that has one in
\* its __dict__.
RECURSIVE InitAlong(_, _)
InitAlong(inits, mro) ==
    IF mro = <<>> THEN "object.__init__"
    ELSE IF mro[1] \in DOMAIN inits /\ inits[mro[1]] # "-" THEN inits[mro[1]]
    ELSE InitAlong(inits, Tail(mro))

InitOf(col, c) == InitAlong(col.inits, MroOf(c))

\* inspect.signature(implementation_cls.__init__).parameters: the names.
ParametersOf(col, c) ==
    IF InitOf(col, c) = StateClasses[c].init THEN StateClasses[c].params
    ELSE {"args", "kwargs"}

\* StateCollector.__init__ for a definition: its members, none implemented.
NewStateCollector(d) ==
    [resolved |-> FALSE,
     implementations |-> [n \in DOMAIN Definitions[d] |-> {}],
     implementation_cls_init_map |-> EmptyMap]

\* GlobalCollector.find_definition_for_implementation: the bases of the mro
\* that have a collector.
DefinitionBases(col, c) == {k \in Range(MroOf(c)) : k \in DOMAIN col.state_collectors}

\* StateCollector.collect_implementations past its first check: the names of
\* the class that are members of the definition get the class as an
\* implementation, the __init__ the class has is kept, and the class gets
\* state_cls_init as its __init__.
AddImplementations(col, d, c) ==
    LET names == (ParametersOf(col, c) \cup StateClasses[c].names)
                    \cap DOMAIN Definitions[d]
        original_init == InitOf(col, c)
    IN IF names = {} THEN [outcome |-> "StateConfigError", col |-> col]
       ELSE [outcome |-> "ok",
             col |-> [col EXCEPT
                        !.state_collectors[d].implementations =
                            [n \in DOMAIN @ |-> IF n \in names THEN @[n] \cup {c} ELSE @[n]],
                        !.state_collectors[d].implementation_cls_init_map =
                            Put(@, c, IF original_init # StateDefinitionInit
                                      THEN original_init ELSE StateEmptyInit),
                        !.inits = Put(@, c, StateClsInit)]]

\* A collector that takes implementations at any time.
CollectImplementationsAlways(col, d, c) == AddImplementations(col, d, c)

\* StateCollector.collect_implementations
CollectImplementations(col, d, c) ==
    IF col.state_collectors[d].resolved
    THEN [outcome |-> "StateConfigError", col |-> col]
    ELSE AddImplementations(col, d, c)

\* StateHolderResolver.get_state_holder_annotations: the annotations of the
\* holder naming definitions, in their order, or the exception.
RECURSIVE GetStateHolderAnnotations(_, _, _, _)
GetStateHolderAnnotations(col, annos, valid, invalid) ==
    IF annos = <<>>
    THEN [outcome |-> IF valid = <<>> \/ invalid # <<>> THEN "StateConfigError" ELSE "ok",
          annotations |-> valid]
    ELSE LET a == Head(annos)
         IN CASE a.type = "Optional[int]" ->
                    [outcome |-> "NotImplementedError", annotations |-> <<>>]
              [] a.type = "'Later'" -> [outcome |-> "KeyError", annotations |-> <<>>]
              [] a.type = "int" ->
                    GetStateHolderAnnotations(col, Tail(annos), valid, invalid)
              [] a.type \notin DOMAIN col.state_collectors ->
                    GetStateHolderAnnotations(col, Tail(annos), valid, Append(invalid, a))
              [] OTHER ->
                    GetStateHolderAnnotations(col, Tail(annos), Append(valid, a), invalid)

\* StateHolderResolver.validate_no_definition_overlap: it raises.
DefinitionsOverlap(annos) ==
    \E i, j \in DOMAIN annos :
        /\ annos[i].type # annos[j].type
        /\ DOMAIN Definitions[annos[i].type] \cap DOMAIN Definitions[annos[j].type] # {}

\* StateHolderDefinitionResolver.get_state_implementation_classes
GetStateImplementationClasses(collector) ==
    UNION {collector.implementations[n] : n \in DOMAIN collector.implementations}

\* The while loop of validate_transitions_reach_all_states: the classes
\* reached, or the KeyError of resolve_type for a destination naming no class
\* of the module.
RECURSIVE ReachStates(_, _, _, _)
ReachStates(col, d, to_check, reachable) ==
    IF to_check = {} THEN [outcome |-> "ok", reachable |-> reachable]
    ELSE LET cls == CHOOSE c \in to_check : TRUE
             tos == {Definitions[d][n].to :
                        n \in {m \in DOMAIN Definitions[d] :
                                  /\ Definitions[d][m].kind = "transition"
                                  /\ cls \in col.state_collectors[d].implementations[m]}}
             reached == reachable \cup {cls}
         IN IF tos \ col.bound # {}
            THEN [outcome |-> "KeyError", reachable |-> reached]
            ELSE ReachStates(col, d, (to_check \ {cls}) \cup (tos \ reached), reached)

\* StateHolderDefinitionResolver.set_state_member_descriptors: the
\* descriptors of the holder class after it, each with the state attribute
\* and the implementation map it reads.
SetStateMemberDescriptors(col, h, name, d) ==
    LET collector == col.state_collectors[d]
        implementation_map ==
            [c \in GetStateImplementationClasses(collector) |->
                {n \in DOMAIN collector.implementations : c \in collector.implementations[n]}]
        had == IF h \in DOMAIN col.descriptors THEN col.descriptors[h] ELSE EmptyMap
    IN Put(col.descriptors, h,
           Merge(had, [n \in DOMAIN Definitions[d] |->
                          [state_attr_name |-> name, kind |-> Definitions[d][n].kind,
                           implementations |-> implementation_map]]))

\* StateHolderDefinitionResolver.resolve for one state attribute of the
\* holder; popped is the class set.pop() gives when default_state_cls is None.
ResolveDefinition(col, h, name, d, popped) ==
    LET collector == col.state_collectors[d]
        classes == GetStateImplementationClasses(collector)
        default == Holders[h].default
        first == IF default # "None" THEN default ELSE popped
        rest == IF default # "None" THEN classes ELSE classes \ {popped}
        run == ReachStates(col, d, {first}, {})
        failed == [outcome |-> "StateConfigError", col |-> col]
    IN IF d \notin Range(Holders[h].bases) THEN failed
       ELSE IF \E n \in DOMAIN collector.implementations : collector.implementations[n] = {}
       THEN failed
       ELSE IF default \notin classes \cup {"None"} THEN failed
       ELSE IF run.outcome # "ok" THEN [outcome |-> run.outcome, col |-> col]
       ELSE IF rest \ run.reachable # {} THEN failed
       ELSE [outcome |-> "ok",
             col |-> [col EXCEPT
                        !.inits = [c \in DOMAIN @ |->
                                      IF c \in classes
                                      THEN collector.implementation_cls_init_map[c]
                                      ELSE @[c]],
                        !.descriptors = SetStateMemberDescriptors(col, h, name, d),
                        !.state_collectors[d].resolved = TRUE]]

\* The loop of StateHolderResolver.resolve over the state attributes.
RECURSIVE ResolveDefinitions(_, _, _, _)
ResolveDefinitions(col, h, annos, pop) ==
    IF annos = <<>> THEN [outcome |-> "ok", col |-> col]
    ELSE LET a == Head(annos)
             run == ResolveDefinition(col, h, a.name, a.type, pop[a.type])
         IN IF run.outcome # "ok" THEN run
            ELSE ResolveDefinitions(run.col, h, Tail(annos), pop)

\* StateHolderResolver.resolve
ResolveHolder(col, h, pop) ==
    LET got == GetStateHolderAnnotations(col, Holders[h].annotations, <<>>, <<>>)
    IN IF got.outcome # "ok" THEN [outcome |-> got.outcome, col |-> col]
       ELSE IF DefinitionsOverlap(got.annotations)
       THEN [outcome |-> "StateConfigError", col |-> col]
       ELSE ResolveDefinitions(col, h, got.annotations, pop)

\* What set.pop() can give for the implementation classes of a definition
\* ("-" for a definition without any), and for those of each definition.
PopsOf(col, d) ==
    LET classes == IF d \in DOMAIN col.state_collectors
                   THEN GetStateImplementationClasses(col.state_collectors[d])
                   ELSE {}
    IN IF classes = {} THEN {"-"} ELSE classes

Pops(col) ==
    {[d \in DOMAIN Definitions |-> CASE d = "D" -> pd [] d = "E" -> pe [] OTHER -> pf] :
        pd \in PopsOf(col, "D"), pe \in PopsOf(col, "E"), pf \in PopsOf(col, "F")}

\* The names a class statement reads: the bases, and the classes its
\* annotations name.
NamesRead(body) ==
    Range(body.bases)
    \cup (IF "annotations" \in DOMAIN body
          THEN {body.annotations[i].type : i \in DOMAIN body.annotations} \ PlainAnnotations
          ELSE {})

\* The statement is reached once, with the names it reads bound.
Reached(cls, body) ==
    /\ cls \notin collectors.attempted
    /\ NamesRead(body) \subseteq collectors.bound

\* What none of the statements of such a module changes.
CollectorsFrame ==
    UNCHANGED <<registry, member_registry, is_resolved, resolved_state_items, cls_to_state,
                host_members, member_sets, heap, host_state, last, fields, reader,
                writer, instance_map, original_new_calls, original_init_calls, returned,
                traversal, extension>>

\* class d(StateDefinition, state_cls_type='definition')
DeclareDefinition(d) ==
    /\ d \notin collectors.attempted
    /\ collectors' = [collectors EXCEPT
                        !.state_collectors = Put(@, d, NewStateCollector(d)),
                        !.inits = Put(@, d, StateDefinitionInit),
                        !.attempted = @ \cup {d},
                        !.bound = @ \cup {d},
                        !.op = "definition", !.cls = d, !.outcome = "ok", !.init = "-"]
    /\ CollectorsFrame

\* class c(<bases>, state_cls_type='state')
DeclareState(c) ==
    /\ Reached(c, StateClasses[c])
    /\ LET body == [collectors EXCEPT !.inits = Put(@, c, StateClasses[c].init)]
           bases == DefinitionBases(body, c)
           run == IF Cardinality(bases) # 1
                  THEN [outcome |-> "StateConfigError", col |-> body]
                  ELSE CollectImplementations(body, CHOOSE d \in bases : TRUE, c)
           col == IF run.outcome = "ok" THEN run.col ELSE collectors
       IN collectors' = [col EXCEPT
                           !.attempted = @ \cup {c},
                           !.bound = IF run.outcome = "ok" THEN @ \cup {c} ELSE @,
                           !.op = "state", !.cls = c, !.outcome = run.outcome,
                           !.init = "-"]
    /\ CollectorsFrame

\* class h(<bases>, state_cls_type='holder', default_state_cls=...)
DeclareHolder(h) ==
    /\ Reached(h, Holders[h])
    /\ \E pop \in Pops(collectors) :
          LET run == ResolveHolder(collectors, h, pop)
          IN collectors' = [run.col EXCEPT
                              !.attempted = @ \cup {h},
                              !.bound = IF run.outcome = "ok" THEN @ \cup {h} ELSE @,
                              !.op = "holder", !.cls = h, !.outcome = run.outcome,
                              !.init = "-"]
    /\ CollectorsFrame

\* c(...) for a definition or a state class of the module, with the
\* arguments the __init__ of its class body takes
Instantiate(c) ==
    /\ c \in collectors.bound
    /\ c \in DOMAIN Definitions \cup DOMAIN StateClasses
    /\ LET init == InitOf(collectors, c)
       IN collectors' = [collectors EXCEPT
                           !.op = "instantiate", !.cls = c, !.init = init,
                           !.outcome = IF init \in {StateDefinitionInit, StateClsInit}
                                       THEN "StateConfigError" ELSE "ok"]
    /\ CollectorsFrame

CollectorsNext ==
    \/ \E d \in DOMAIN Definitions : DeclareDefinition(d)
    \/ \E c \in DOMAIN StateClasses : DeclareState(c)
    \/ \E h \in DOMAIN Holders : DeclareHolder(h)
    \/ \E c \in DOMAIN Definitions \cup DOMAIN StateClasses : Instantiate(c)

CollectorsSpec == Init /\ [][CollectorsNext]_vars

\* ------------------------------------------------------------------------
\* singleton/_api.py, singleton/_implementation.py: classes made singletons
\* ------------------------------------------------------------------------

\* GlobalUniqueKeyGetter.get: the sentinel, whatever the arguments
GlobalUniqueKeyGetterGet(nargs) == "_sentinel"

\* SingletonImpl.original_new called with the class and nargs arguments:
\* object.__new__ takes no argument but the class once the class has a
\* __new__ set on it, a __new__ of the class's own takes what it declares.
OriginalNew(c, nargs) ==
    IF OwnNew(c) \/ nargs = 0 THEN "instance" ELSE "TypeError"

\* The InstanceWrapper objects created so far, over all classes.
Wrappers(map) == UNION {{map[c][k].id : k \in DOMAIN map[c]} : c \in DOMAIN map}

\* SingletonImpl.new for class c: the map afterwards, whether original_new
\* was called, how the call ended and the object it returned.
SingletonImplNew(map, c, nargs) ==
    LET unique_key == GlobalUniqueKeyGetterGet(nargs)
    IN IF unique_key \in DOMAIN map[c]
       THEN [map |-> map, called |-> FALSE, outcome |-> "ok", obj |-> map[c][unique_key].id]
       ELSE IF OriginalNew(c, nargs) = "TypeError"
            THEN [map |-> map, called |-> TRUE, outcome |-> "TypeError", obj |-> 0]
            ELSE LET id == Cardinality(Wrappers(map)) + 1
                 IN [map |-> [map EXCEPT ![c] = Put(@, unique_key,
                                 [id |-> id, instance |-> c, initialized |-> FALSE])],
                     called |-> TRUE, outcome |-> "ok", obj |-> id]

\* isinstance(obj, cls) of type.__call__ for the object cls.__new__ returned:
\* an InstanceWrapper is no instance of the class, so __init__ is not called.
WrapperIsInstance == FALSE

\* c(...) for a singleton class c, written with the arguments the class's
\* __init__ declares
ConstructSingleton(c) ==
    /\ Len(returned) < MaxConstructions
    /\ LET run == SingletonImplNew(instance_map, c, ConstructorArgs(c))
       IN /\ instance_map' = run.map
          /\ original_new_calls' =
                [original_new_calls EXCEPT ![c] = IF run.called THEN @ + 1 ELSE @]
          /\ original_init_calls' =
                [original_init_calls EXCEPT
                    ![c] = IF run.outcome = "ok" /\ WrapperIsInstance THEN @ + 1 ELSE @]
          /\ returned' = Append(returned, [cls |-> c, outcome |-> run.outcome,
                                           obj |-> run.obj])
    /\ UNCHANGED <<registry, member_registry, is_resolved, resolved_state_items, cls_to_state,
                   host_members, member_sets, heap, host_state, last, fields, reader,
                   writer, traversal, extension, collectors>>

SingletonNext == \E c \in SingletonClasses : ConstructSingleton(c)

SingletonSpec == Init /\ [][SingletonNext]_vars

\* ------------------------------------------------------------------------
\* The machine as its StateDefinition describes it, and what the host's
\* wrappers would do now.
\* ------------------------------------------------------------------------

\* The concrete state classes of the definition the host class is bound to.
ConcreteClasses == {cls_to_state.concretes[i].cls : i \in DOMAIN cls_to_state.concretes}

\* The StateItem of concrete state class c.
ItemOf(c) ==
    cls_to_state.concretes[CHOOSE i \in DOMAIN cls_to_state.concretes :
                              cls_to_state.concretes[i].cls = c]

\* The concrete state an object of class k is an instance of: the first
\* class of its mro that is one, "-" when none is.
StateOf(k) ==
    LET own == SelectSeq(Mro(k), LAMBDA c : c \in ConcreteClasses)
    IN IF own = <<>> THEN "-" ELSE own[1]

\* The member names the state of an object of class k implements.
Implemented(k) == IF StateOf(k) = "-" THEN {} ELSE MemberNamesOf(ItemOf(StateOf(k)))

\* The member names of the machine: those the host class has a wrapper for.
BoundMembers ==
    {n \in DOMAIN host_members :
        host_members[n].kind \in {"attribute", "property", "method", "transition"}}

\* How reading or calling member n through the host would end now.
Outcome(n) ==
    IF host_members[n].kind = "transition"
    THEN TransitionWrapper(member_sets, heap, host_state, n,
             [new |-> FALSE, cls |-> heap[host_state], obj |-> host_state,
              raises |-> FALSE]).outcome
    ELSE MemberWrapper(member_sets, heap, host_state, n).outcome

\* The destination the definition declares for transition n of the state of
\* an object of class k.
DeclaredTo(k, n) == ItemOf(StateOf(k)).transitions[n].to

\* The declarations of the two registries, and the declared initial ones.
Declarations == DOMAIN registry \cup DOMAIN member_registry
DeclaredInitials == {c \in DOMAIN registry : registry[c].initial}
DeclaredConcretes == {c \in DOMAIN registry : ~registry[c].abstract}

\* ------------------------------------------------------------------------
\* A machine definition as the specification reads it (Resolver, steps 2 to
\* 6): what a declaration has, and when the definition is well formed.
\* ------------------------------------------------------------------------

\* The members a declaration has by itself and by its registered bases, the
\* nearest class of the mro deciding a name declared twice.
EffectiveMembers(c) ==
    UNION {MemberNamesOf(MatchItem(registry, member_registry, b)) :
              b \in Range(Mro(c)) \cap Declarations}

EffectiveTo(c, n) ==
    LET owners == SelectSeq(Mro(c), LAMBDA b :
                      b \in DOMAIN member_registry
                      /\ n \in DOMAIN member_registry[b].transitions)
    IN member_registry[owners[1]].transitions[n]

EffectiveEdges(c) ==
    {EffectiveTo(c, n) :
        n \in {m \in TransNames : \E b \in Range(Mro(c)) \cap DOMAIN member_registry :
                                     m \in DOMAIN member_registry[b].transitions}}

\* The declarations reached from those of R by at most k transitions.
RECURSIVE ReachedFrom(_, _)
ReachedFrom(R, k) ==
    IF k = 0 THEN R
    ELSE ReachedFrom(R \cup UNION {EffectiveEdges(c) : c \in R}, k - 1)

\* The three clauses on a machine definition: one initial declaration that
\* is not abstract, every member implemented by a concrete declaration, and
\* every concrete declaration reached from the initial one.
WellFormed ==
    /\ Cardinality(DeclaredInitials) = 1
    /\ DeclaredInitials \subseteq DeclaredConcretes
    /\ \A d \in Declarations :
          \A n \in MemberNamesOf(MatchItem(registry, member_registry, d)) :
             \E c \in DeclaredConcretes : n \in EffectiveMembers(c)
    /\ DeclaredConcretes \subseteq ReachedFrom(DeclaredInitials, Cardinality(Classes))

\* ------------------------------------------------------------------------
\* C1 .. C10
\* ------------------------------------------------------------------------

\* C1: whatever object the host holds, reading or calling through the host
\* a member of the machine that the held state does not implement raises
\* StateError: it returns nothing and fails with no other kind of error.
C1_UnsupportedRaisesStateError ==
    (/\ last.op \in {"access", "transition"}
     /\ last.name \in BoundMembers
     /\ last.name \notin Implemented(heap[last.before]))
    => last.outcome = "StateError"

\* C2: after a transition call that returned, the object the host holds is
\* an instance of exactly the destination declared for that transition.
C2_HoldsDeclaredDestination ==
    (last.op = "transition" /\ last.outcome = "ok")
    => heap[host_state] = DeclaredTo(heap[last.before], last.name)

\* C3: a freshly constructed host holds an instance of the one declaration
\* registered as initial, and host.state reports that object as long as the
\* host holds its first state object.
C3_FreshHostHoldsInitial ==
    /\ last.op = "construct"
       => /\ host_state = Len(heap)
          /\ {heap[host_state]} = DeclaredInitials
          /\ cls_to_state # NoDefinition => heap[host_state] = cls_to_state.initial
    /\ (last.op = "read_state" /\ host_state = 1)
       => /\ last.outcome = "ok"
          /\ last.value.obj = host_state
          /\ {heap[last.value.obj]} = DeclaredInitials

C3_Witness ==
    /\ last.op = "read_state"
    /\ host_state = 1
    /\ Len(cls_to_state.concretes) >= 2

C5_EffectiveMembersPass ==
    /\ (host_state # 0 /\ heap[host_state] \in ConcreteClasses)
       => \A n \in EffectiveMembers(heap[host_state]) :
             n \in BoundMembers /\ Outcome(n) = "ok"
    /\ (last.op = "access" /\ last.outcome = "ok")
       => last.value = [obj |-> last.before, name |-> last.name]

\* C6: a failed call leaves the host holding the object it held, and the
\* same call made again right after a StateError raises StateError with the
\* identical message and changes nothing.
C6_FailedCallRepeats ==
    /\ [](last.outcome = "StateError" => host_state = last.before)
    /\ [][(/\ last.outcome = "StateError"
           /\ last'.op = last.op
           /\ last'.name = last.name)
          => (/\ last'.outcome = "StateError"
              /\ last'.msg = last.msg
              /\ host_state' = host_state
              /\ heap' = heap)]_vars

C6_Witness ==
    /\ last.op = "access"
    /\ last.outcome = "StateError"
    /\ Outcome(last.name) = "StateError"

\* C7: the message of every StateError names the host class, the class of
\* the object the host held at the failing access (after a transition: the
\* object the transition left) and the member asked for.
C7_MessageNamesAllThree ==
    last.outcome = "StateError"
    => /\ last.msg.host = HostCls
       /\ last.msg.state = heap[last.before]
       /\ last.msg.state = heap[host_state]
       /\ last.msg.member = last.name

C7_Witness ==
    /\ last.op = "transition"
    /\ last.outcome = "StateError"
    /\ last.before = 2
    /\ heap[1] # heap[2]

\* C8: a transition call that succeeds returns None, and all it does is
\* make the host hold the object the callable returned: every state object
\* there was, the one held before included, is as it was.
C8_TransitionOnlySwaps ==
    /\ []((last.op = "transition" /\ last.outcome = "ok")
          => (last.returned = "None" /\ last.value = NoValue))
    /\ [][(last'.op = "transition" /\ last'.outcome = "ok")
          => (/\ \E ret \in Returns(heap, host_state) :
                    /\ ~ret.raises
                    /\ host_state' = ret.obj
                    /\ heap' = IF ret.new THEN Append(heap, ret.cls) ELSE heap
              /\ UNCHANGED <<registry, member_registry, is_resolved, resolved_state_items, cls_to_state,
                             host_members, member_sets>>)]_vars

C8_Witness ==
    /\ last.op = "transition"
    /\ last.outcome = "ok"
    /\ last.before = 1
    /\ host_state = 2
    /\ heap[1] # heap[2]

\* C9: the object a host holds changes only by a transition call that
\* succeeds: reads, method calls, failed accesses and assigning host.state
\* (which raises AttributeError) leave it, and every state object, as it was.
C9_OnlyTransitionsSwap ==
    /\ [](last.op = "set_state" => last.outcome = "AttributeError")
    /\ [][/\ (host_state # 0 /\ host_state' # host_state)
             => (last'.op = "transition" /\ last'.outcome = "ok")
          /\ (last'.op \in {"access", "read_state", "set_state"}
                 \/ last'.outcome \notin {"ok", "-"})
             => heap' = heap]_vars

C9_Witness ==
    /\ last.op = "access"
    /\ last.outcome = "ok"
    /\ last.before = 2
    /\ host_state = 2

\* C10: resolving a machine definition succeeds only if it has one initial
\* declaration that is not abstract, every member is implemented by a
\* concrete declaration and every concrete declaration is reached from the
\* initial one: when one of these clauses is violated, the outcome is
\* StateConfigError.
C10_IllFormedIsConfigError ==
    (/\ last.op = "add_state"
     /\ last.name # "_check_is_unresolved"
     /\ ~WellFormed)
    => last.outcome = "StateConfigError"

\* ------------------------------------------------------------------------
\* C11 .. C20
\* ------------------------------------------------------------------------

\* The resolver's run of the last add_state.
Resolving == last.op = "add_state" /\ last.name # "_check_is_unresolved"

\* How resolver.resolve ended in that run; the decorator of add_state_to is
\* called exactly if it returned.
ResolverEnded == last.resolver

\* The classes of the resolved state items, the concrete ones among them and
\* the item of class c.
ResolvedClasses == {resolved_state_items[i].cls : i \in DOMAIN resolved_state_items}
ResolvedConcretes ==
    {resolved_state_items[i].cls :
        i \in {j \in DOMAIN resolved_state_items : ~resolved_state_items[j].abstract}}
ResolvedItem(c) ==
    resolved_state_items[CHOOSE i \in DOMAIN resolved_state_items :
                            resolved_state_items[i].cls = c]

\* The validations before the traversal passed: there are resolved items, no
\* abstract one is without members, one initial item that is not abstract,
\* and every transition leads to a concrete declaration.
PassedEarlierValidations ==
    /\ resolved_state_items # <<>>
    /\ ~AbstractWithoutMembers(resolved_state_items)
    /\ ~InvalidInitial(resolved_state_items)
    /\ \A c \in ResolvedClasses : \A n \in DOMAIN ResolvedItem(c).transitions :
          ResolvedItem(c).transitions[n].to \in ResolvedConcretes

\* The destinations of the transitions of the resolved item of class c.
ResolvedEdges(c) ==
    IF c \in ResolvedClasses
    THEN {ResolvedItem(c).transitions[n].to : n \in DOMAIN ResolvedItem(c).transitions}
    ELSE {}

\* The declarations the transitions of the resolved items lead to from
\* those of R in at most k steps.
RECURSIVE ClosureFrom(_, _)
ClosureFrom(R, k) ==
    IF k = 0 THEN R
    ELSE ClosureFrom(R \cup UNION {ResolvedEdges(c) : c \in R}, k - 1)

BadInitial ==
    \/ Cardinality(DeclaredInitials) # 1
    \/ \E c \in DeclaredInitials : registry[c].abstract

\* C12: resolving a machine with no initial declaration, with several, or
\* with an abstract one raises StateConfigError, and the host class is not
\* modified and no host instance is ever constructed.
C12_BadInitialIsConfigError ==
    /\ (Resolving /\ BadInitial) => ResolverEnded = "StateConfigError"
    /\ (is_resolved /\ BadInitial)
       => /\ BoundMembers = {}
          /\ DOMAIN host_members \cap {"__init__"} = {}
          /\ member_sets = EmptyMap
          /\ cls_to_state = NoDefinition
          /\ heap = <<>>
          /\ host_state = 0

\* Some transition's declared destination is no registered concrete
\* declaration: it names nothing, an unregistered class or an abstract
\* declaration.
BadDestination ==
    \E c \in DOMAIN member_registry : \E n \in DOMAIN member_registry[c].transitions :
        member_registry[c].transitions[n] \notin DeclaredConcretes

\* C13: a transition whose declared destination does not resolve to a
\* registered concrete declaration makes resolution fail with
\* StateConfigError (at resolve time, so never at the first call).
C13_BadDestinationIsConfigError ==
    (Resolving /\ BadDestination) => ResolverEnded = "StateConfigError"

\* C14: in the StateDefinition a successful resolution returns, every
\* transition of every concrete state, declared by the state or inherited,
\* leads to one of the definition's concrete states.
C14_DestinationsAreConcrete ==
    cls_to_state # NoDefinition
    => \A c \in ConcreteClasses : \A n \in DOMAIN ItemOf(c).transitions :
          ItemOf(c).transitions[n].to \in ConcreteClasses

C14_Witness ==
    /\ Resolving
    /\ last.outcome = "ok"
    /\ \E c \in ConcreteClasses : \E n \in DOMAIN ItemOf(c).transitions :
          ItemOf(c).transitions[n].owner # c

\* C15: in the StateDefinition a successful resolution returns, the
\* concretes are exactly the declarations registered as not abstract, each
\* once, and the declaration registered as initial is the definition's
\* initial state and the first of the concretes.
C15_ConcretesInitialFirst ==
    cls_to_state # NoDefinition
    => /\ ConcreteClasses = DeclaredConcretes
       /\ Len(cls_to_state.concretes) = Cardinality(DeclaredConcretes)
       /\ DeclaredInitials = {cls_to_state.initial}
       /\ cls_to_state.initial \in ConcreteClasses
       /\ cls_to_state.concretes[1].cls = cls_to_state.initial
       /\ cls_to_state.concretes[1].initial

C15_Witness ==
    /\ Resolving
    /\ last.outcome = "ok"
    /\ ~resolved_state_items[1].abstract
    /\ resolved_state_items[1].cls # cls_to_state.initial
    /\ \E i \in DOMAIN resolved_state_items : resolved_state_items[i].abstract

\* The classes whose implementation of member n a state item holds.
OwnersOf(item, n) ==
    {item.attributes[m] : m \in DOMAIN item.attributes \cap {n}}
    \cup {item.properties[m] : m \in DOMAIN item.properties \cap {n}}
    \cup {item.methods[m] : m \in DOMAIN item.methods \cap {n}}
    \cup {item.transitions[m].owner : m \in DOMAIN item.transitions \cap {n}}

\* The member names declaration c declares itself.
DeclaredMembers(c) == MemberNamesOf(MatchItem(registry, member_registry, c))

\* The registered declarations among the base classes of c.
RegisteredBases(c) == (Range(Mro(c)) \ {c}) \cap Declarations

\* C16: when a declaration declares a member of the name of a member one of
\* its registered base declarations declares, its entry in the resolved
\* machine (handed to the binder) holds the derived implementation for that
\* name and not the base's.
C16_DerivedOverridesBase ==
    (Resolving /\ ResolverEnded = "ok")
    => \A i \in DOMAIN resolved_state_items :
          \A n \in DeclaredMembers(resolved_state_items[i].cls) :
             (\E b \in RegisteredBases(resolved_state_items[i].cls) :
                 n \in DeclaredMembers(b))
             => OwnersOf(resolved_state_items[i], n) = {resolved_state_items[i].cls}

\* C17: for registered declarations D and B, B among the base classes of D,
\* the resolved entry of D holds every member of B that D does not declare
\* itself, in whatever order the resolver processes the declarations.
C17_InheritsFromEveryBase ==
    (Resolving /\ ResolverEnded = "ok")
    => \A i \in DOMAIN resolved_state_items :
          \A b \in RegisteredBases(resolved_state_items[i].cls) :
             DeclaredMembers(b) \subseteq MemberNamesOf(resolved_state_items[i])

\* The members collected for the machine that no concrete declaration
\* implements, by itself or by a registered base.
UnimplementedMembers ==
    UNION {DeclaredMembers(d) : d \in Declarations}
    \ UNION {EffectiveMembers(c) : c \in DeclaredConcretes}

\* C18: when a collected member of the machine has no implementation on any
\* state, resolution fails (with StateConfigError): a member that no state
\* implements is never accepted.
C18_UnimplementedIsRejected ==
    (Resolving /\ UnimplementedMembers # {}) => ResolverEnded # "ok"

\* C19: registering a state under an identity the registry already holds
\* fails and leaves the registry's entry for that identity as it was: no
\* step replaces an entry of the class registry.
C19_RegisteredEntryIsKept ==
    [][\A c \in DOMAIN registry :
          c \in DOMAIN registry' /\ registry'[c] = registry[c]]_vars

\* C20: registering a method, property or transition under a name already
\* registered for its owning identity fails instead of replacing the earlier
\* member: no step replaces a member of the member registry.
C20_RegisteredMemberIsKept ==
    [][\A c \in DOMAIN member_registry :
          /\ c \in DOMAIN member_registry'
          /\ member_registry[c].methods \subseteq member_registry'[c].methods
          /\ member_registry[c].properties \subseteq member_registry'[c].properties
          /\ \A n \in DOMAIN member_registry[c].transitions :
                /\ n \in DOMAIN member_registry'[c].transitions
                /\ member_registry'[c].transitions[n] = member_registry[c].transitions[n]]_vars

\* ------------------------------------------------------------------------
\* C21 .. C30
\* ------------------------------------------------------------------------

\* The member names of the machine the resolver handed to the binder: those
\* of its concrete states.
MachineMembers ==
    UNION {MemberNamesOf(ResolvedItem(c)) : c \in ResolvedConcretes}

\* C21: binding a machine to a host class that already has a member of the
\* name of a machine member or of the state accessor fails with
\* StateConfigError, and the binder sets no attribute of a name the host
\* class already had.
C21_CollisionIsConfigError ==
    (/\ Resolving
     /\ ResolverEnded = "ok"
     /\ last.own \cap (MachineMembers \cup {"state"}) # {})
    => /\ last.outcome = "StateConfigError"
       /\ \A n \in last.own : n \notin DOMAIN host_members

\* C22: add_state with another machine on a host class that an earlier bind
\* succeeded on raises StateConfigError, and what the first bind installed
\* stays as it was: the wrappers and the wrapped __init__ of the host class,
\* the member sets of the state classes, the definition the class is bound
\* to, and the state every host instance holds.
C22_BoundHostIsKept ==
    [][(cls_to_state # NoDefinition /\ last'.op = "add_other")
       => (/\ last'.outcome = "StateConfigError"
           /\ UNCHANGED <<cls_to_state, host_members, member_sets, heap, host_state>>)]_vars

C22_Witness ==
    /\ last.op = "add_other"
    /\ last.outcome = "StateConfigError"
    /\ host_state # 0
    /\ BoundMembers # {}

\* C25: a StateRegistry is resolved at most once. Once add_state is applied
\* with it, whether the validation then succeeds or fails, it reports
\* resolved and stays so; from then on every register, method, property_ or
\* transition on it and every add_state with it raises StateConfigError, and
\* neither of its two registries changes.
C25_ResolvedOnce ==
    /\ [](last.op = "add_state" => Resolved(is_resolved))
    /\ [][Resolved(is_resolved)
          => (/\ Resolved(is_resolved')
              /\ registry' = registry
              /\ member_registry' = member_registry
              /\ last'.op \in {"decorate", "add_state"}
                 => last'.outcome = "StateConfigError")]_vars

C25_Witness ==
    /\ last.op = "decorate"
    /\ last.outcome = "StateConfigError"
    /\ cls_to_state = NoDefinition
    /\ resolved_state_items # <<>>

\* The registered base declarations of c that declare member n, the nearest
\* base of c first.
BasesDeclaring(c, n) ==
    SelectSeq(Tail(Mro(c)), LAMBDA b : b \in Declarations /\ n \in DeclaredMembers(b))

\* C27: when several registered base declarations of a declaration declare
\* a member n that the declaration does not declare itself, its resolved
\* entry holds the n of the most derived of them (for C(B), B(A): B's and
\* not A's), in whatever order the resolver processes the declarations.
C27_MostDerivedBaseWins ==
    (Resolving /\ ResolverEnded = "ok")
    => \A i \in DOMAIN resolved_state_items :
          \A n \in MemberNames \ DeclaredMembers(resolved_state_items[i].cls) :
             Len(BasesDeclaring(resolved_state_items[i].cls, n)) >= 2
             => OwnersOf(resolved_state_items[i], n)
                    = {BasesDeclaring(resolved_state_items[i].cls, n)[1]}

\* C28: calling through the host a transition that the held state does not
\* implement raises StateError, no transition callable is invoked, and the
\* host holds the object it held.
C28_UnimplementedTransitionRaises ==
    (/\ last.op = "transition"
     /\ last.name \in BoundMembers
     /\ last.name \notin Implemented(heap[last.before]))
    => /\ last.outcome = "StateError"
       /\ last.invoked = "-"
       /\ host_state = last.before

\* C29: when the transition callable of the held state raises, the
\* exception reaches the caller and the host holds the object it held; the
\* held object is replaced only by a call whose callable returned.
C29_RaisingCallableKeepsState ==
    /\ []((last.op = "transition" /\ last.invoked = "raised")
          => (last.outcome = "Exception" /\ host_state = last.before))
    /\ []((last.op = "transition" /\ host_state # last.before)
          => (last.invoked = "returned" /\ last.outcome = "ok"))
    /\ [][(last'.op = "transition" /\ last'.outcome = "Exception")
          => UNCHANGED <<host_state, heap>>]_vars

C29_Witness ==
    /\ last.op = "transition"
    /\ last.outcome = "Exception"
    /\ last.invoked = "raised"
    /\ host_state = 2

\* C26: every construction of a singleton class with the default key getter
\* returns an object, the same one as every other construction of that
\* class, and the class's original __new__ and __init__ are each invoked at
\* most once.
C26_ConstructionsAreIdentical ==
    /\ \A i \in DOMAIN returned :
          /\ returned[i].outcome = "ok"
          /\ \A j \in DOMAIN returned :
                returned[j].cls = returned[i].cls => returned[j].obj = returned[i].obj
    /\ \A c \in SingletonClasses :
          original_new_calls[c] <= 1 /\ original_init_calls[c] <= 1

\* C30: when the binder fails with StateConfigError on a member-name
\* collision, the host class is as it was before add_state: it has no state
\* property, no wrapped __init__ and no member wrapper, and no state class
\* has a member set.
C30_FailedBindLeavesHost ==
    (/\ Resolving
     /\ ResolverEnded = "ok"
     /\ last.outcome = "StateConfigError")
    => /\ host_members = EmptyMap
       /\ member_sets = EmptyMap
       /\ cls_to_state = NoDefinition

\* The states of the article machine in the order of the test, and the calls
\* that lead from each to the next.
ArticlePath == <<"Demanded", "Ordered", "InStock", "OnDispatch", "Sold">>
ArticleSteps == <<"order", "arrived_at_stock", "ship", "arrived_at_customer">>

\* C24: an Article starts in Demanded, and the calls order, arrived_at_stock,
\* ship, arrived_at_customer each succeed in their turn and replace the held
\* state by a new object of the next class of Demanded, Ordered, InStock,
\* OnDispatch, Sold, no successful transition doing anything else; after
\* order(cost) the host's cost is readable and is the cost ordered with;
\* stock_location raises StateError naming the state in Demanded, Ordered
\* and OnDispatch; margin is readable in Sold, where it is the price less
\* the cost, and raises StateError in every other state.
C24_ArticleSequence ==
    /\ [](host_state # 0 =>
            /\ host_state = Len(heap)
            /\ heap = SubSeq(ArticlePath, 1, Len(heap))
            /\ Len(heap) < Len(ArticlePath) => Outcome(ArticleSteps[Len(heap)]) = "ok"
            /\ heap[host_state] \in {"Demanded", "Ordered", "OnDispatch"}
                  => Outcome("stock_location") = "StateError"
            /\ Outcome("margin") = IF heap[host_state] = "Sold" THEN "ok" ELSE "StateError"
            /\ heap[host_state] = "Ordered" => Outcome("cost") = "ok")
    /\ [][(last'.op = "transition" /\ last'.outcome = "ok")
          => \E i \in DOMAIN ArticleSteps :
                /\ last'.name = ArticleSteps[i]
                /\ heap[host_state] = ArticlePath[i]
                /\ host_state' = Len(heap) + 1
                /\ heap' = Append(heap, ArticlePath[i + 1])]_vars
    /\ [][(last'.op = "transition" /\ last'.name = "order" /\ last'.outcome = "ok")
          => /\ MemberWrapper(member_sets', heap', host_state', "cost").value
                   = [obj |-> host_state', name |-> "cost"]
             /\ GetAttr(heap', fields', host_state', "cost") = last'.args.cost]_vars
    /\ []((last.op = "access" /\ last.name = "stock_location"
           /\ heap[last.before] \in {"Demanded", "Ordered", "OnDispatch"})
          => /\ last.outcome = "StateError"
             /\ last.msg.state = heap[last.before])
    /\ []((last.op = "access" /\ last.name = "margin")
          => IF heap[last.before] = "Sold"
             THEN /\ last.outcome = "ok"
                  /\ GetAttr(heap, fields, last.value.obj, last.value.name)
                        = fields[last.before].price_sold - fields[last.before].cost
             ELSE last.outcome = "StateError")

\* An Article that went all the way to Sold, its margin just read.
C24_Witness ==
    /\ heap = ArticlePath
    /\ host_state = Len(ArticlePath)
    /\ last.op = "access"
    /\ last.name = "margin"
    /\ last.outcome = "ok"
    /\ GetAttr(heap, fields, last.value.obj, last.value.name) \in {499 - c : c \in Costs}

OnlyMemberRegistryKeys == DOMAIN member_registry \ DOMAIN registry
OnlyClassRegistryKeys == DOMAIN registry \ DOMAIN member_registry

AbstractDeclarations ==
    {d \in Declarations : d \notin DOMAIN registry \/ registry[d].abstract}

\* C32: the resolver ends with StateConfigError whenever an abstract
\* declaration has no member, neither by itself nor by a registered base;
\* and validate_state_definitions rejects no machine whose abstract
\* declarations all have a member by themselves or by a registered base.
C32_AbstractNeedsMembers ==
    /\ (Resolving /\ \E d \in AbstractDeclarations : EffectiveMembers(d) = {})
       => ResolverEnded = "StateConfigError"
    /\ (Resolving /\ resolved_state_items # <<>>
        /\ AbstractWithoutMembers(resolved_state_items))
       => \E d \in AbstractDeclarations : EffectiveMembers(d) = {}

\* C33: the resolver ends with StateConfigError whenever the __init__ of the
\* declared initial state takes an argument besides self, and a definition
\* it returns has an initial state whose __init__ takes none: the wrapped
\* __init__ of the host can call default_state_cls().
C33_InitialTakesNoArgument ==
    /\ (Resolving /\ \E c \in DeclaredInitials : InitParameters(c) > 1)
       => ResolverEnded = "StateConfigError"
    /\ cls_to_state # NoDefinition => InitParameters(cls_to_state.initial) = 1
    /\ host_state # 0 => InitParameters(heap[1]) = 1

\* C34: the traversal of validate_state_transition_map ends for every
\* definition, with cycles, self-loops and several transitions to one state,
\* and has then dequeued at most as many items as the definition has states.
C34_TraversalIsBounded ==
    traversal.pc = "done"
    => traversal.dequeued <= Cardinality(DOMAIN traversal.by_cls)

\* C35: the member sets of the state classes are written in the add_state
\* step that binds the host class and in no other step: constructing a
\* host, reading or calling a member, a call that fails, a transition and
\* reading or assigning state leave every member set as it is.
C35_MemberSetsAreFixed ==
    /\ [][member_sets' # member_sets
          => (last'.op = "add_state" /\ member_sets = EmptyMap)]_vars
    /\ [][last'.op \in {"construct", "access", "transition", "read_state", "set_state"}
          => member_sets' = member_sets]_vars

\* A bound host after a call that failed with StateError on its second
\* state object.
C35_Witness ==
    /\ member_sets # EmptyMap
    /\ last.op \in {"access", "transition"}
    /\ last.outcome = "StateError"
    /\ host_state = 2

\* The class entries and the member entries one of the two registries holds,
\* each member entry with the names its MemberStateItem holds per kind.
EntriesOf(ext, side) ==
    [registry |-> ext[side].registry,
     member_registry |-> [c \in DOMAIN ext[side].member_registry |->
                             ext.items[ext[side].member_registry[c]]]]

\* C39: the registry extend() returns starts unresolved and holds the class
\* and member entries of the registry it was called on, and a state, method,
\* property or transition registered afterwards on one of the two registries
\* leaves the class entries and the member entries of the other unchanged.
C39_ExtendedIsIndependent ==
    /\ [][extension'.op = "extend" /\ ~extension.extended
          => /\ ~extension'.copy.is_resolved
             /\ EntriesOf(extension', "copy") = EntriesOf(extension', "original")]_vars
    /\ [][extension'.op \in Registrations /\ extension'.outcome = "ok"
          => \A side \in Sides \ {extension'.on} :
                EntriesOf(extension', side) = EntriesOf(extension, side)]_vars

\* The definition a state class of the module is declared for.
DefinitionOf(c) == MroOf(c)[Len(MroOf(c))]

\* A holder class has been resolved for the definition.
HolderResolved(col, d) ==
    d \in DOMAIN col.state_collectors /\ col.state_collectors[d].resolved

\* The implementations recorded for the members of every definition.
RecordedImplementations(col) ==
    [d \in DOMAIN col.state_collectors |-> col.state_collectors[d].implementations]

\* C36: once a holder class has been resolved for a definition, the
\* declaration of a further state class for that definition ends with
\* StateConfigError, and it changes neither the implementations recorded for
\* the members nor the implementation map of any descriptor of a holder.
C36_ResolvedTakesNoState ==
    [][(/\ collectors'.op = "state"
        /\ collectors'.cls \notin collectors.attempted
        /\ HolderResolved(collectors, DefinitionOf(collectors'.cls)))
       => /\ collectors'.outcome = "StateConfigError"
          /\ RecordedImplementations(collectors') = RecordedImplementations(collectors)
          /\ collectors'.descriptors = collectors.descriptors]_vars

\* A state class was declared for a definition that a bound holder class
\* has descriptors for, and the declaration failed.
C36_Witness ==
    /\ collectors.op = "state"
    /\ collectors.outcome = "StateConfigError"
    /\ HolderResolved(collectors, DefinitionOf(collectors.cls))
    /\ \E h \in DOMAIN Holders \cap collectors.bound :
          \E n \in DOMAIN collectors.descriptors[h] :
              collectors.descriptors[h][n].implementations # EmptyMap

\* The constructor a state class of the module has by its class statement:
\* the __init__ of its body, else the one of the nearest state class it
\* subclasses, else none (state_empty_init stands for it).
RECURSIVE OriginalInit(_)
OriginalInit(c) ==
    IF c \notin DOMAIN StateClasses THEN StateEmptyInit
    ELSE IF StateClasses[c].init # "-" THEN StateClasses[c].init
    ELSE OriginalInit(StateClasses[c].bases[1])

\* C37: a call of a state class ends with StateConfigError as long as no
\* holder class has been resolved for its definition, and once one has been
\* resolved the call of every state class of the definition, also of one
\* that subclasses another state class and has no __init__ of its own, runs
\* the constructor the class had originally.
C37_InstantiableOnceHeld ==
    (collectors.op = "instantiate" /\ collectors.cls \in DOMAIN StateClasses)
    => IF HolderResolved(collectors, DefinitionOf(collectors.cls))
       THEN collectors.outcome = "ok" /\ collectors.init = OriginalInit(collectors.cls)
       ELSE collectors.outcome = "StateConfigError"

\* The holder class has two state attributes annotated with different
\* definitions that have a member name in common.
CarriesOverlap(h) ==
    \E i, j \in DOMAIN Holders[h].annotations :
        LET d1 == Holders[h].annotations[i].type
            d2 == Holders[h].annotations[j].type
        IN /\ d1 \in DOMAIN Definitions /\ d2 \in DOMAIN Definitions
           /\ d1 # d2
           /\ DOMAIN Definitions[d1] \cap DOMAIN Definitions[d2] # {}

\* C38: the class statement of a holder with two state attributes annotated
\* with different definitions that share a member name ends with
\* StateConfigError, and no descriptor is set on the holder class.
C38_OverlapIsConfigError ==
    (collectors.op = "holder" /\ CarriesOverlap(collectors.cls))
    => /\ collectors.outcome = "StateConfigError"
       /\ collectors.cls \notin DOMAIN collectors.descriptors
====
